---- MODULE Spec2Model ----
(***************************************************************************)
(* Verification model of the FinanceFlow / fire-calculator calculators.   *)
(*                                                                         *)
(* Every calculator operation is a pure function of its arguments; the    *)
(* web router owns one instance of each calculator, calls an operation    *)
(* inside try/catch and answers with the result or with the error.  The   *)
(* state machine below is that request cycle: an operation action takes   *)
(* the machine from phase "idle" to phase "done", recording the call, its *)
(* outcome and the number of simulation steps it executed; Respond        *)
(* returns to "idle".                                                      *)
(*                                                                         *)
(* JavaScript numbers are modelled as exact rationals <<n, d>> (d > 0,     *)
(* lowest terms), extended with the IEEE special values Infinity <<1,0>>,  *)
(* -Infinity <<-1,0>> and NaN <<0,0>>.  The specification SpecDouble at    *)
(* the end models binary64 rounding for the salary bisection loops.       *)
(***************************************************************************)
EXTENDS Integers, Sequences, FiniteSets, TLC

(***************************************************************************)
(* JavaScript Number arithmetic (exact rationals plus Infinity and NaN)    *)
(***************************************************************************)
Abs(x) == IF x < 0 THEN -x ELSE x

Sign(x) == IF x < 0 THEN -1 ELSE IF x > 0 THEN 1 ELSE 0

RECURSIVE GCD(_, _)
GCD(a, b) == IF b = 0 THEN a ELSE GCD(b, a % b)

\* n/d in lowest terms with a positive denominator (d # 0)
Norm(n, d) ==
    LET g == GCD(Abs(n), Abs(d))
        s == IF d < 0 THEN -1 ELSE 1
    IN  <<s * (n \div g), s * (d \div g)>>

NaN == <<0, 0>>

Infinity == <<1, 0>>

Q(n, d) == Norm(n, d)

I(n) == <<n, 1>>

IsNaN(a) == a[1] = 0 /\ a[2] = 0

IsInf(a) == a[1] # 0 /\ a[2] = 0

IsFinite(a) == a[2] # 0

\* a * b
Mul(a, b) ==
    IF IsNaN(a) \/ IsNaN(b) THEN NaN
    ELSE IF IsInf(a) \/ IsInf(b)
         THEN IF a[1] = 0 \/ b[1] = 0 THEN NaN
              ELSE <<Sign(a[1]) * Sign(b[1]), 0>>
    ELSE LET g1 == GCD(Abs(a[1]), b[2])
             g2 == GCD(Abs(b[1]), a[2])
         IN  Norm((a[1] \div g1) * (b[1] \div g2), (a[2] \div g2) * (b[2] \div g1))

Neg(a) == <<-a[1], a[2]>>

\* a + b
Add(a, b) ==
    IF IsNaN(a) \/ IsNaN(b) THEN NaN
    ELSE IF IsInf(a) /\ IsInf(b) THEN (IF a[1] = b[1] THEN a ELSE NaN)
    ELSE IF IsInf(a) THEN a
    ELSE IF IsInf(b) THEN b
    ELSE LET g == GCD(a[2], b[2])
         IN  Norm(a[1] * (b[2] \div g) + b[1] * (a[2] \div g), (a[2] \div g) * b[2])

Sub(a, b) == Add(a, Neg(b))

\* a / b  (x/0 is +-Infinity, 0/0 is NaN; the sign of a zero is not modelled)
Div(a, b) ==
    IF IsNaN(a) \/ IsNaN(b) THEN NaN
    ELSE IF IsInf(b) THEN (IF IsInf(a) THEN NaN ELSE I(0))
    ELSE IF b[1] = 0 THEN (IF a[1] = 0 THEN NaN ELSE <<Sign(a[1]), 0>>)
    ELSE IF IsInf(a) THEN <<Sign(a[1]) * Sign(b[1]), 0>>
    ELSE Mul(a, Norm(b[2], b[1]))

\* a < b  (false when either side is NaN)
Lt(a, b) ==
    IF IsNaN(a) \/ IsNaN(b) THEN FALSE
    ELSE IF IsInf(a) THEN a[1] < 0 /\ b # a
    ELSE IF IsInf(b) THEN b[1] > 0
    ELSE LET g == GCD(a[2], b[2])
         IN  a[1] * (b[2] \div g) < b[1] * (a[2] \div g)

\* a === b on numbers (NaN is not equal to itself)
Eq(a, b) == ~IsNaN(a) /\ ~IsNaN(b) /\ a = b

Le(a, b) == Lt(a, b) \/ Eq(a, b)

Gt(a, b) == Lt(b, a)

Ge(a, b) == Le(b, a)

\* Math.max(a, b)
Max(a, b) == IF IsNaN(a) \/ IsNaN(b) THEN NaN ELSE IF Lt(a, b) THEN b ELSE a

\* Math.min(a, b)
Min(a, b) == IF IsNaN(a) \/ IsNaN(b) THEN NaN ELSE IF Lt(b, a) THEN b ELSE a

\* floor of n/d for d > 0
FloorDiv(n, d) == IF n >= 0 THEN n \div d ELSE -((-n + d - 1) \div d)

\* Math.ceil(a)
Ceil(a) == IF ~IsFinite(a) THEN a ELSE I(-FloorDiv(-a[1], a[2]))

\* Math.round(a): nearest integer, halves towards +Infinity
Round(a) ==
    IF ~IsFinite(a) THEN a
    ELSE LET q == FloorDiv(a[1], a[2])
             r == a[1] - q * a[2]
         IN  I(IF 2 * r >= a[2] THEN q + 1 ELSE q)

\* Math.round(a * 100) / 100
Round2(a) == Div(Round(Mul(a, I(100))), I(100))

\* Math.pow(a, k) for a whole exponent k
RECURSIVE Pow(_, _)
Pow(a, k) ==
    IF k = 0 THEN I(1)
    ELSE IF k < 0 THEN Div(I(1), Pow(a, -k))
    ELSE Mul(a, Pow(a, k - 1))

IsWhole(a) == IsFinite(a) /\ a[2] = 1

\* the element of a set of one element.  In The({e : x \in {v}}) the operand v
\* is evaluated once, before e.
The(S) == CHOOSE r \in S : TRUE

\* n iterations of a loop body Body(s, c) from loop state s with constants c.
\* The halves are evaluated one after the other so that the evaluation depth
\* is logarithmic in n.
RECURSIVE Iterate(_, _, _, _)
Iterate(Body(_, _), s, c, n) ==
    IF n <= 0 THEN s
    ELSE IF n = 1 THEN Body(s, c)
    ELSE The({Iterate(Body, h, c, n - n \div 2) :
                 h \in {Iterate(Body, s, c, n \div 2)}})

\* number of iterations of  for (i = 1; i <= limit; i++)
ForCount(limit) ==
    IF IsFinite(limit) /\ limit[1] > 0 THEN FloorDiv(limit[1], limit[2]) ELSE 0

(***************************************************************************)
(* The request cycle                                                       *)
(***************************************************************************)
VARIABLES
    phase,    \* "idle": waiting for a call; "done": a call has returned or thrown
    op,       \* name of the operation that was called
    args,     \* its arguments
    result,   \* the value it returned (NoResult when it threw)
    err,      \* the message of the Error it threw (NoError when it returned)
    steps,    \* number of simulation / search loop iterations it executed
    instances \* the fields of the calculator instances the router shares

vars == <<phase, op, args, result, err, steps, instances>>

NoError == "none"

NoResult == [none |-> TRUE]

\* outcome of a call that returned v after k loop iterations
Return(v, k) == [err |-> NoError, value |-> v, steps |-> k]

\* message of the TypeError raised by reading a property of undefined
UndefinedRead(property) ==
    "Cannot read properties of undefined (reading '" \o property \o "')"

\* outcome of a call that threw after k loop iterations
Throw(msg, k) == [err |-> msg, value |-> NoResult, steps |-> k]

\* variant of FieldsAfter in which calculateNetSalary keeps the rate it was
\* called with in a field of its instance
FieldsAfterKeepingRate(name, a, fields) ==
    IF name = "calculateNetSalary"
    THEN [fields EXCEPT !.taxCalculator.medicareRate = a.superRate]
    ELSE fields

\* the fields of the instances after operation name has run with arguments a:
\* outside the constructors no method assigns to a field of this
FieldsAfter(name, a, fields) == fields

\* the state after operation name was called with arguments a and came out as r
Called(name, a, r) ==
    /\ phase = "idle"
    /\ phase' = "done"
    /\ op' = name
    /\ args' = a
    /\ result' = r.value
    /\ err' = r.err
    /\ steps' = r.steps
    /\ instances' = FieldsAfter(name, a, instances)

\* res.json(result) or, in the catch block, res.status(400).json({error})
Respond ==
    /\ phase = "done"
    /\ phase' = "idle"
    /\ op' = "none"
    /\ args' = NoResult
    /\ result' = NoResult
    /\ err' = NoError
    /\ steps' = 0
    /\ UNCHANGED instances

(***************************************************************************)
(* FireCalculator                                                          *)
(***************************************************************************)
FireGoalInvalid(withdrawalRate) == Le(withdrawalRate, I(0))

\* variant of calculateSavingsGoal that leaves out the twelve months of a year
calculateSavingsGoalMonthly(monthlyExpenses, withdrawalRate) ==
    IF FireGoalInvalid(withdrawalRate)
    THEN Throw("Withdrawal rate must be greater than zero.", 0)
    ELSE Return([value |-> Div(monthlyExpenses, withdrawalRate)], 0)

calculateSavingsGoal(monthlyExpenses, withdrawalRate) ==
    IF FireGoalInvalid(withdrawalRate)
    THEN Throw("Withdrawal rate must be greater than zero.", 0)
    ELSE Return([value |-> Div(Mul(monthlyExpenses, I(12)), withdrawalRate)], 0)

FireRateInvalid(savingsGoal) == Le(savingsGoal, I(0))

calculateWithdrawalRate(savingsGoal, monthlyExpenses) ==
    IF FireRateInvalid(savingsGoal)
    THEN Throw("Savings goal must be greater than zero.", 0)
    ELSE Return([value |-> Div(Mul(monthlyExpenses, I(12)), savingsGoal)], 0)

(***************************************************************************)
(* SavingsCalculator                                                       *)
(***************************************************************************)
\* this.compoundingFrequencies[compoundingFrequency] || 12
compoundingFrequencies(f) ==
    CASE f = "daily" -> 365
      [] f = "monthly" -> 12
      [] f = "quarterly" -> 4
      [] f = "annually" -> 1
      [] OTHER -> 12

\* variant of SavingsGrowthInvalid that lets a zero year count through
SavingsGrowthInvalidStrict(years) == Lt(years, I(0))

SavingsGrowthInvalid(years) == Le(years, I(0))

\* variant of EmitsRecord that stores a record at the final period only
EmitsRecordAtEnd(periodCounter, period, c) == Eq(I(period), c.totalPeriods)

\* periodCounter === compoundsPerYear || period === totalPeriods
EmitsRecord(periodCounter, period, c) ==
    periodCounter = c.compoundsPerYear \/ Eq(I(period), c.totalPeriods)

\* variant of SavingsGrowthStep that computes the interest on the balance before
\* the contribution is added
SavingsGrowthStepInterestFirst(s, c) ==
    LET interestEarned == Mul(s.balance, c.ratePerPeriod)
        balance2 == Add(Add(s.balance, interestEarned), c.contributionPerPeriod)
        totalContributions == Add(s.totalContributions, c.contributionPerPeriod)
        yearContributions == Add(s.yearContributions, c.contributionPerPeriod)
        totalInterest == Add(s.totalInterest, interestEarned)
        yearInterest == Add(s.yearInterest, interestEarned)
        periodCounter == s.periodCounter + 1
        emit == EmitsRecord(periodCounter, s.period, c)
    IN  [period |-> s.period + 1,
         balance |-> balance2,
         totalContributions |-> totalContributions,
         totalInterest |-> totalInterest,
         yearContributions |-> IF emit THEN I(0) ELSE yearContributions,
         yearInterest |-> IF emit THEN I(0) ELSE yearInterest,
         periodCounter |-> IF emit THEN 0 ELSE periodCounter,
         yearlyData |-> IF emit
                        THEN Append(s.yearlyData,
                                 [year |-> Ceil(Div(I(s.period), I(c.compoundsPerYear))),
                                  balance |-> Round(balance2),
                                  contributions |-> Round(yearContributions),
                                  interest |-> Round(yearInterest),
                                  totalContributions |-> Round(totalContributions),
                                  totalInterest |-> Round(totalInterest)])
                        ELSE s.yearlyData]

\* one iteration of the for loop of calculateSavingsGrowth; c holds the constants
SavingsGrowthStep(s, c) ==
    LET balance1 == Add(s.balance, c.contributionPerPeriod)
        interestEarned == Mul(balance1, c.ratePerPeriod)
        balance2 == Add(balance1, interestEarned)
        totalContributions == Add(s.totalContributions, c.contributionPerPeriod)
        yearContributions == Add(s.yearContributions, c.contributionPerPeriod)
        totalInterest == Add(s.totalInterest, interestEarned)
        yearInterest == Add(s.yearInterest, interestEarned)
        periodCounter == s.periodCounter + 1
        emit == EmitsRecord(periodCounter, s.period, c)
    IN  [period |-> s.period + 1,
         balance |-> balance2,
         totalContributions |-> totalContributions,
         totalInterest |-> totalInterest,
         yearContributions |-> IF emit THEN I(0) ELSE yearContributions,
         yearInterest |-> IF emit THEN I(0) ELSE yearInterest,
         periodCounter |-> IF emit THEN 0 ELSE periodCounter,
         yearlyData |-> IF emit
                        THEN Append(s.yearlyData,
                                 [year |-> Ceil(Div(I(s.period), I(c.compoundsPerYear))),
                                  balance |-> Round(balance2),
                                  contributions |-> Round(yearContributions),
                                  interest |-> Round(yearInterest),
                                  totalContributions |-> Round(totalContributions),
                                  totalInterest |-> Round(totalInterest)])
                        ELSE s.yearlyData]

calculateSavingsGrowth(initialBalance, monthlyContribution, annualInterestRate, years, compoundingFrequency) ==
    IF SavingsGrowthInvalid(years)
    THEN Throw("Years must be greater than zero.", 0)
    ELSE
    LET compoundsPerYear == compoundingFrequencies(compoundingFrequency)
        c == [compoundsPerYear |-> compoundsPerYear,
              ratePerPeriod |-> Div(annualInterestRate, I(compoundsPerYear)),
              totalPeriods |-> Mul(years, I(compoundsPerYear)),
              contributionPerPeriod |->
                  Mul(monthlyContribution, Div(I(12), I(compoundsPerYear)))]
        s0 == [period |-> 1,
               balance |-> initialBalance,
               totalContributions |-> I(0),
               totalInterest |-> I(0),
               yearContributions |-> I(0),
               yearInterest |-> I(0),
               periodCounter |-> 0,
               yearlyData |-> <<[year |-> I(0),
                                 balance |-> Round(initialBalance),
                                 contributions |-> I(0),
                                 interest |-> I(0),
                                 totalContributions |-> I(0),
                                 totalInterest |-> I(0)]>>]
        s == Iterate(SavingsGrowthStep, s0, c, ForCount(c.totalPeriods))
    IN  Return([finalBalance |-> Round(s.balance),
                initialBalance |-> Round(initialBalance),
                totalContributions |-> Round(s.totalContributions),
                totalInterest |-> Round(s.totalInterest),
                years |-> years,
                effectiveRate |-> Mul(annualInterestRate, I(100)),
                yearlyData |-> s.yearlyData],
               s.period - 1)

\* null
Null == [null |-> TRUE]

\* Number.prototype.toFixed(1) of a number x >= 0: the decimal string with one
\* digit after the point, a value half way between two strings going up
ToFixed1(x) ==
    LET tenths == Round(Mul(x, I(10)))[1]
    IN  ToString(tenths \div 10) \o "." \o ToString(tenths % 10)

\* variant of GoalAlreadyMet that lets a target equal to the balance through
GoalAlreadyMetStrict(targetAmount, initialBalance) == Lt(targetAmount, initialBalance)

\* the test of both goal methods for a target that is already met
GoalAlreadyMet(targetAmount, initialBalance) == Le(targetAmount, initialBalance)

maxMonths == 1200

\* one pass through the while loop of calculateTimeToGoal; a pass whose loop
\* condition is false changes nothing
TimeToGoalStep(s, c) ==
    IF ~(Lt(s.balance, c.targetAmount) /\ s.months < maxMonths)
    THEN s
    ELSE LET balance1 == Add(s.balance, c.monthlyContribution)
         IN  [months |-> s.months + 1,
              balance |-> Add(balance1, Mul(balance1, c.monthlyRate))]

calculateTimeToGoal(initialBalance, targetAmount, monthlyContribution, annualInterestRate) ==
    IF GoalAlreadyMet(targetAmount, initialBalance)
    THEN Return([months |-> I(0), years |-> I(0), achieved |-> TRUE,
                 message |-> "Goal already achieved!"], 0)
    ELSE IF Le(monthlyContribution, I(0)) /\ Le(annualInterestRate, I(0))
    THEN Return([months |-> Null, years |-> Null, achieved |-> FALSE,
                 message |-> "Cannot reach goal without contributions or interest"], 0)
    ELSE
    LET s == Iterate(TimeToGoalStep,
                     [months |-> 0, balance |-> initialBalance],
                     [targetAmount |-> targetAmount,
                      monthlyContribution |-> monthlyContribution,
                      monthlyRate |-> Div(annualInterestRate, I(12))],
                     maxMonths)
        contributed == Mul(monthlyContribution, I(s.months))
    IN  IF s.months >= maxMonths
        THEN Return([months |-> Null, years |-> Null, achieved |-> FALSE,
                     message |-> "Goal will take more than 100 years to achieve"],
                    s.months)
        ELSE Return([months |-> I(s.months),
                     years |-> ToFixed1(Div(I(s.months), I(12))),
                     achieved |-> TRUE,
                     finalBalance |-> Round(s.balance),
                     totalContributions |-> Round(contributed),
                     totalInterest |->
                         Round(Sub(Sub(s.balance, initialBalance), contributed))],
                    s.months)

\* Math.pow is evaluated for whole month counts only
calculateRequiredContribution(initialBalance, targetAmount, years, annualInterestRate) ==
    IF GoalAlreadyMet(targetAmount, initialBalance)
    THEN Return([value |-> I(0)], 0)
    ELSE
    LET months == Mul(years, I(12))
        monthlyRate == Div(annualInterestRate, I(12))
    IN  IF Eq(monthlyRate, I(0))
        THEN Return([value |-> Div(Sub(targetAmount, initialBalance), months)], 0)
        ELSE
        LET growth == Pow(Add(I(1), monthlyRate), months[1])
            futureValueOfInitial == Mul(initialBalance, growth)
            remainingNeeded == Sub(targetAmount, futureValueOfInitial)
            requiredPayment ==
                Div(remainingNeeded, Div(Sub(growth, I(1)), monthlyRate))
        IN  Return([value |-> Round(requiredPayment)], 0)

(***************************************************************************)
(* LoanCalculator                                                          *)
(***************************************************************************)
\* frequencies[paymentFrequency] || 12
frequencies(f) ==
    CASE f = "weekly" -> 52
      [] f = "fortnightly" -> 26
      [] f = "monthly" -> 12
      [] OTHER -> 12

\* one iteration of the for loop of generateAmortizationSchedule
AmortizationStep(s, c) ==
    LET interestPayment == Mul(s.balance, c.ratePerPeriod)
        principalPayment == Sub(c.payment, interestPayment)
        balance == Sub(s.balance, principalPayment)
        cumulativePrincipal == Add(s.cumulativePrincipal, principalPayment)
        cumulativeInterest == Add(s.cumulativeInterest, interestPayment)
        emit == s.i % c.paymentsPerYear = 0 \/ Eq(I(s.i), c.totalPayments)
    IN  [i |-> s.i + 1,
         balance |-> balance,
         cumulativePrincipal |-> cumulativePrincipal,
         cumulativeInterest |-> cumulativeInterest,
         schedule |-> IF emit
                      THEN Append(s.schedule,
                               [payment |-> I(s.i),
                                year |-> Ceil(Div(I(s.i), I(c.paymentsPerYear))),
                                principalPayment |-> Round2(principalPayment),
                                interestPayment |-> Round2(interestPayment),
                                totalPayment |-> Round2(c.payment),
                                remainingBalance |-> Max(I(0), Round(balance)),
                                cumulativePrincipal |-> Round(cumulativePrincipal),
                                cumulativeInterest |-> Round(cumulativeInterest)])
                      ELSE s.schedule]

\* returns the final loop state: its schedule is the function's return value
generateAmortizationSchedule(principal, payment, ratePerPeriod, totalPayments, paymentFrequency) ==
    Iterate(AmortizationStep,
            [i |-> 1,
             balance |-> principal,
             cumulativePrincipal |-> I(0),
             cumulativeInterest |-> I(0),
             schedule |-> <<>>],
            [payment |-> payment,
             ratePerPeriod |-> ratePerPeriod,
             totalPayments |-> totalPayments,
             paymentsPerYear |-> frequencies(paymentFrequency)],
            ForCount(totalPayments))

LoanInvalid(loanAmount, loanTermYears) ==
    IF Le(loanAmount, I(0)) THEN "Loan amount must be greater than zero."
    ELSE IF Le(loanTermYears, I(0)) THEN "Loan term must be greater than zero."
    ELSE NoError

\* the payment formula; Math.pow is evaluated for whole totalPayments only
LoanPayment(loanAmount, annualInterestRate, ratePerPeriod, totalPayments) ==
    IF Eq(annualInterestRate, I(0))
    THEN Div(loanAmount, totalPayments)
    ELSE LET pow == Pow(Add(I(1), ratePerPeriod), totalPayments[1])
         IN  Div(Mul(loanAmount, Mul(ratePerPeriod, pow)), Sub(pow, I(1)))

calculateLoanRepayment(loanAmount, annualInterestRate, loanTermYears, paymentFrequency) ==
    IF LoanInvalid(loanAmount, loanTermYears) # NoError
    THEN Throw(LoanInvalid(loanAmount, loanTermYears), 0)
    ELSE
    LET paymentsPerYear == frequencies(paymentFrequency)
        totalPayments == Mul(loanTermYears, I(paymentsPerYear))
        ratePerPeriod == Div(annualInterestRate, I(paymentsPerYear))
        payment == LoanPayment(loanAmount, annualInterestRate, ratePerPeriod, totalPayments)
        s == generateAmortizationSchedule(loanAmount, payment, ratePerPeriod,
                                          totalPayments, paymentFrequency)
        totalPaid == Mul(payment, totalPayments)
        totalInterest == Sub(totalPaid, loanAmount)
    IN  Return([loanAmount |-> Round(loanAmount),
                payment |-> Round2(payment),
                totalPayments |-> totalPayments,
                totalPaid |-> Round(totalPaid),
                totalInterest |-> Round(totalInterest),
                paymentFrequency |-> paymentFrequency,
                interestRate |-> Mul(annualInterestRate, I(100)),
                loanTermYears |-> loanTermYears,
                schedule |-> s.schedule],
               s.i - 1)

(***************************************************************************)
(* SuperannuationCalculator                                                *)
(***************************************************************************)
defaultSGRate == Q(115, 1000)

contributionsTaxRate == Q(15, 100)

earningsTaxRate == Q(15, 100)

\* number of iterations of  for (year = 0; year < years; year++)
YearCount(years) ==
    IF IsFinite(years) /\ years[1] > 0 THEN -FloorDiv(-years[1], years[2]) ELSE 0

\* variant of NetContribution that takes the contribution out of the balance
NetContributionNegated(contribution) ==
    Mul(contribution, Sub(contributionsTaxRate, I(1)))

\* a contribution after the contributions tax
NetContribution(contribution) ==
    Mul(contribution, Sub(I(1), contributionsTaxRate))

\* one iteration of the for loop of calculateRetirementBalance
RetirementBalanceStep(s, c) ==
    LET currentYear == Add(c.currentAge, I(s.year))
        contributionsTax ==
            Mul(Add(s.employerContribution, s.personalContribution), contributionsTaxRate)
        netEmployerContribution == NetContribution(s.employerContribution)
        netPersonalContribution == NetContribution(s.personalContribution)
        balance1 == Add(s.balance, Add(netEmployerContribution, netPersonalContribution))
        grossYearReturn == Mul(balance1, c.returnRate)
        earningsTax == Mul(grossYearReturn, earningsTaxRate)
        netYearReturn == Mul(grossYearReturn, Sub(I(1), earningsTaxRate))
        yearFees == Mul(balance1, c.feeRate)
        balance2 == Add(balance1, Sub(netYearReturn, yearFees))
        currentIncome == Mul(s.currentIncome, Add(I(1), c.inflationRate))
    IN  [year |-> s.year + 1,
         balance |-> balance2,
         currentIncome |-> currentIncome,
         employerContribution |-> Mul(currentIncome, c.employerContributionRate),
         personalContribution |-> Mul(currentIncome, c.personalContributionRate),
         totalEmployerContributions |->
             Add(s.totalEmployerContributions, netEmployerContribution),
         totalPersonalContributions |->
             Add(s.totalPersonalContributions, netPersonalContribution),
         totalReturns |-> Add(s.totalReturns, netYearReturn),
         totalFees |-> Add(s.totalFees, yearFees),
         totalContributionsTax |-> Add(s.totalContributionsTax, contributionsTax),
         totalEarningsTax |-> Add(s.totalEarningsTax, earningsTax),
         yearlyData |-> Append(s.yearlyData,
                            [age |-> Add(currentYear, I(1)),
                             balance |-> Round(balance2),
                             employerContribution |-> Round(netEmployerContribution),
                             personalContribution |-> Round(netPersonalContribution),
                             returns |-> Round(netYearReturn),
                             fees |-> Round(yearFees),
                             contributionsTax |-> Round(contributionsTax),
                             earningsTax |-> Round(earningsTax)])]

RetirementInvalid(currentAge, retirementAge) == Le(retirementAge, currentAge)

calculateRetirementBalance(currentAge, retirementAge, currentSuper, annualIncome, employerContributionRate, personalContributionRate, returnRate, inflationRate, feeRate) ==
    IF RetirementInvalid(currentAge, retirementAge)
    THEN Throw("Retirement age must be greater than current age.", 0)
    ELSE
    LET years == Sub(retirementAge, currentAge)
        c == [currentAge |-> currentAge,
              employerContributionRate |-> employerContributionRate,
              personalContributionRate |-> personalContributionRate,
              returnRate |-> returnRate,
              inflationRate |-> inflationRate,
              feeRate |-> feeRate]
        s0 == [year |-> 0,
               balance |-> currentSuper,
               currentIncome |-> annualIncome,
               employerContribution |-> Mul(annualIncome, employerContributionRate),
               personalContribution |-> Mul(annualIncome, personalContributionRate),
               totalEmployerContributions |-> I(0),
               totalPersonalContributions |-> I(0),
               totalReturns |-> I(0),
               totalFees |-> I(0),
               totalContributionsTax |-> I(0),
               totalEarningsTax |-> I(0),
               yearlyData |-> <<>>]
        s == Iterate(RetirementBalanceStep, s0, c, YearCount(years))
    IN  Return([finalBalance |-> Round(s.balance),
                currentSuper |-> Round(currentSuper),
                totalEmployerContributions |-> Round(s.totalEmployerContributions),
                totalPersonalContributions |-> Round(s.totalPersonalContributions),
                totalReturns |-> Round(s.totalReturns),
                totalFees |-> Round(s.totalFees),
                totalContributionsTax |-> Round(s.totalContributionsTax),
                totalEarningsTax |-> Round(s.totalEarningsTax),
                totalTax |-> Round(Add(s.totalContributionsTax, s.totalEarningsTax)),
                totalContributions |->
                    Round(Add(s.totalEmployerContributions, s.totalPersonalContributions)),
                years |-> years,
                yearlyData |-> s.yearlyData],
               s.year)

\* the loop bound and tolerance of calculateRequiredContributions
maxIterations == 100

ContributionTolerance == Q(1, 10000)

\* variant of RequiredContributionsStep that moves the wrong end of the interval
RequiredContributionsStepSwapped(s, c) ==
    IF s.err # NoError
       \/ ~(s.iterations < maxIterations /\ Gt(Sub(s.high, s.low), ContributionTolerance))
    THEN s
    ELSE LET mid == Div(Add(s.low, s.high), I(2))
             r == calculateRetirementBalance(c.currentAge, c.retirementAge,
                      c.currentSuper, c.annualIncome, defaultSGRate, mid,
                      c.returnRate, Q(25, 1000), Q(85, 10000))
         IN  IF r.err # NoError
             THEN [s EXCEPT !.err = r.err]
             ELSE IF Lt(r.value.finalBalance, c.targetBalance)
                  THEN [s EXCEPT !.high = mid, !.iterations = @ + 1]
                  ELSE [s EXCEPT !.low = mid, !.iterations = @ + 1]

\* one pass through the while loop of calculateRequiredContributions; a pass
\* whose loop condition is false, or that follows a throw, changes nothing
RequiredContributionsStep(s, c) ==
    IF s.err # NoError
       \/ ~(s.iterations < maxIterations /\ Gt(Sub(s.high, s.low), ContributionTolerance))
    THEN s
    ELSE LET mid == Div(Add(s.low, s.high), I(2))
             r == calculateRetirementBalance(c.currentAge, c.retirementAge,
                      c.currentSuper, c.annualIncome, defaultSGRate, mid,
                      c.returnRate, Q(25, 1000), Q(85, 10000))
         IN  IF r.err # NoError
             THEN [s EXCEPT !.err = r.err]
             ELSE IF Lt(r.value.finalBalance, c.targetBalance)
                  THEN [s EXCEPT !.low = mid, !.iterations = @ + 1]
                  ELSE [s EXCEPT !.high = mid, !.iterations = @ + 1]

calculateRequiredContributions(currentAge, retirementAge, currentSuper, targetBalance, annualIncome, returnRate) ==
    IF Le(targetBalance, currentSuper)
    THEN Return([value |-> I(0)], 0)
    ELSE
    LET c == [currentAge |-> currentAge, retirementAge |-> retirementAge,
              currentSuper |-> currentSuper, targetBalance |-> targetBalance,
              annualIncome |-> annualIncome, returnRate |-> returnRate]
        s == Iterate(RequiredContributionsStep,
                     [low |-> I(0), high |-> Q(1, 2), iterations |-> 0, err |-> NoError],
                     c, maxIterations)
    IN  IF s.err # NoError
        THEN Throw(s.err, s.iterations)
        ELSE Return([value |-> Div(Round(Mul(Div(Add(s.low, s.high), I(2)), I(10000))),
                                   I(100))],
                    s.iterations)

(***************************************************************************)
(* TaxCalculator                                                           *)
(***************************************************************************)
taxBrackets ==
    <<[min |-> I(0), max |-> I(18200), rate |-> I(0), baseAmount |-> I(0)],
      [min |-> I(18201), max |-> I(45000), rate |-> Q(19, 100), baseAmount |-> I(0)],
      [min |-> I(45001), max |-> I(120000), rate |-> Q(325, 1000), baseAmount |-> I(5092)],
      [min |-> I(120001), max |-> I(180000), rate |-> Q(37, 100), baseAmount |-> I(29467)],
      [min |-> I(180001), max |-> Infinity, rate |-> Q(45, 100), baseAmount |-> I(51667)]>>

medicareRate == Q(2, 100)

medicareThreshold == I(24276)

litoMax == I(700)

litoThreshold == I(37500)

litoPhaseOutRate == Q(5, 100)

litoPhaseOutEnd == I(66667)

\* variant of BracketApplies that takes a bracket from its lower bound on
BracketAppliesInclusive(annualIncome, bracket) == Ge(annualIncome, bracket.min)

\* the test that lets a bracket set the tax
BracketApplies(annualIncome, bracket) == Gt(annualIncome, bracket.min)

\* passes given to the salary searches: more than the number of halvings that
\* take the widest modelled interval below 1
SearchPasses == 40

\* variant of IncomeTaxStep that does not add 1 to the amount in the bracket
IncomeTaxStepNoUnit(tax, annualIncome, bracket) ==
    IF BracketApplies(annualIncome, bracket)
    THEN LET taxableInBracket == Sub(Min(annualIncome, bracket.max), bracket.min)
         IN  Add(bracket.baseAmount, Mul(taxableInBracket, bracket.rate))
    ELSE tax

\* the body of the for loop of calculateIncomeTax for one bracket
IncomeTaxStep(tax, annualIncome, bracket) ==
    IF BracketApplies(annualIncome, bracket)
    THEN LET taxableInBracket ==
                 Add(Sub(Min(annualIncome, bracket.max), bracket.min), I(1))
         IN  Add(bracket.baseAmount, Mul(taxableInBracket, bracket.rate))
    ELSE tax

RECURSIVE IncomeTaxLoop(_, _, _)
IncomeTaxLoop(tax, annualIncome, i) ==
    IF i > Len(taxBrackets) THEN tax
    ELSE IncomeTaxLoop(IncomeTaxStep(tax, annualIncome, taxBrackets[i]), annualIncome, i + 1)

calculateIncomeTax(annualIncome) == IncomeTaxLoop(I(0), annualIncome, 1)

calculateLITO(annualIncome) ==
    IF Le(annualIncome, litoThreshold) THEN litoMax
    ELSE IF Lt(annualIncome, litoPhaseOutEnd)
         THEN LET reduction == Mul(Sub(annualIncome, litoThreshold), litoPhaseOutRate)
              IN  Max(I(0), Sub(litoMax, reduction))
    ELSE I(0)

calculateMedicareLevy(annualIncome) ==
    IF Le(annualIncome, medicareThreshold) THEN I(0)
    ELSE LET shadingMax == Add(medicareThreshold, I(3740))
         IN  IF Le(annualIncome, shadingMax)
             THEN Mul(Sub(annualIncome, medicareThreshold), Q(10, 100))
             ELSE Mul(annualIncome, medicareRate)

calculateSuper(annualIncome, superRate) == Mul(annualIncome, superRate)

RECURSIVE MarginalRateLoop(_, _)
MarginalRateLoop(taxableIncome, i) ==
    IF i > Len(taxBrackets) THEN I(47)
    ELSE IF Ge(taxableIncome, taxBrackets[i].min) /\ Le(taxableIncome, taxBrackets[i].max)
         THEN LET baseRate == Mul(taxBrackets[i].rate, I(100))
              IN  Div(Round(Mul(Add(baseRate, I(2)), I(10))), I(10))
    ELSE MarginalRateLoop(taxableIncome, i + 1)

getMarginalTaxRate(taxableIncome) == MarginalRateLoop(taxableIncome, 1)

\* Math.round(x * 10) / 10
Round1(x) == Div(Round(Mul(x, I(10))), I(10))

calculateNetSalary(annualSalary, includeSuperInPackage, superRate, preTaxDeductions, postTaxDeductions) ==
    LET baseSalary == IF includeSuperInPackage
                      THEN Div(annualSalary, Add(I(1), superRate))
                      ELSE annualSalary
        superContribution == IF includeSuperInPackage
                             THEN Sub(annualSalary, baseSalary)
                             ELSE calculateSuper(annualSalary, superRate)
        taxableIncome == Sub(baseSalary, preTaxDeductions)
        incomeTax == calculateIncomeTax(taxableIncome)
        lito == calculateLITO(taxableIncome)
        medicareLevy == calculateMedicareLevy(taxableIncome)
        totalTax == Max(I(0), Add(Sub(incomeTax, lito), medicareLevy))
        netIncome == Sub(Sub(taxableIncome, totalTax), postTaxDeductions)
        effectiveTaxRate == Mul(Div(totalTax, taxableIncome), I(100))
        marginalTaxRate == getMarginalTaxRate(taxableIncome)
    IN  Return([gross |-> [annualSalary |-> Round(annualSalary),
                           monthlySalary |-> Round(Div(annualSalary, I(12))),
                           fortnightlySalary |-> Round(Div(annualSalary, I(26))),
                           weeklySalary |-> Round(Div(annualSalary, I(52)))],
                superannuation |-> [annual |-> Round(superContribution),
                                    monthly |-> Round(Div(superContribution, I(12))),
                                    rate |-> Round1(Mul(superRate, I(100))),
                                    includedInPackage |-> includeSuperInPackage],
                taxableIncome |-> Round(taxableIncome),
                tax |-> [incomeTax |-> Round(incomeTax),
                         lito |-> Round(lito),
                         medicareLevy |-> Round(medicareLevy),
                         totalTax |-> Round(totalTax),
                         effectiveRate |-> Round1(effectiveTaxRate),
                         marginalRate |-> marginalTaxRate],
                deductions |-> [preTax |-> Round(preTaxDeductions),
                                postTax |-> Round(postTaxDeductions),
                                total |-> Round(Add(preTaxDeductions, postTaxDeductions))],
                net |-> [annualIncome |-> Round(netIncome),
                         monthlyIncome |-> Round(Div(netIncome, I(12))),
                         fortnightlyIncome |-> Round(Div(netIncome, I(26))),
                         weeklyIncome |-> Round(Div(netIncome, I(52))),
                         dailyIncome |-> Round(Div(netIncome, I(365)))],
                takeHomePercentage |->
                    Round1(Mul(Div(netIncome, annualSalary), I(100)))],
               0)

\* calculateNetSalary(salary) with the default options
NetSalaryDefault(salary) == calculateNetSalary(salary, FALSE, Q(115, 1000), I(0), I(0))

\* one pass through  while (high - low > 1)  of the two salary searches; a
\* pass whose loop condition is false changes nothing
SalarySearchStep(s, targetTakeHome) ==
    IF ~Gt(Sub(s.high, s.low), I(1))
    THEN s
    ELSE LET mid == Div(Add(s.low, s.high), I(2))
             r == NetSalaryDefault(mid)
         IN  IF Lt(r.value.net.annualIncome, targetTakeHome)
             THEN [s EXCEPT !.low = mid, !.evaluations = @ + 1]
             ELSE [s EXCEPT !.high = mid, !.salary = mid, !.evaluations = @ + 1]

\* the while loop run from [low, high]; in exact arithmetic the interval is
\* halved on every pass, so SearchPasses passes reach the loop's exit
SalarySearch(low, high, targetTakeHome) ==
    Iterate(SalarySearchStep,
            [low |-> low, high |-> high, salary |-> low, evaluations |-> 0],
            targetTakeHome, SearchPasses)

calculateRequiredSalaryIncrease(currentSalary, desiredTakeHomeIncrease) ==
    LET currentNet == NetSalaryDefault(currentSalary).value
        targetTakeHome == Add(currentNet.net.annualIncome, desiredTakeHomeIncrease)
        s == SalarySearch(currentSalary, Mul(currentSalary, I(3)), targetTakeHome)
        targetSalary == s.salary
        newNet == NetSalaryDefault(targetSalary).value
        salaryIncrease == Sub(targetSalary, currentSalary)
    IN  Return([currentSalary |-> Round(currentSalary),
                requiredSalary |-> Round(targetSalary),
                salaryIncrease |-> Round(salaryIncrease),
                salaryIncreasePercentage |->
                    Round1(Mul(Div(salaryIncrease, currentSalary), I(100))),
                currentTakeHome |-> currentNet.net.annualIncome,
                newTakeHome |-> newNet.net.annualIncome,
                takeHomeIncrease |->
                    Sub(newNet.net.annualIncome, currentNet.net.annualIncome),
                taxOnIncrease |->
                    Round(Sub(salaryIncrease,
                              Sub(newNet.net.annualIncome, currentNet.net.annualIncome)))],
               s.evaluations)

calculateRequiredGrossSalary(targetTakeHome) ==
    LET s == SalarySearch(targetTakeHome, Mul(targetTakeHome, I(2)), targetTakeHome)
        requiredSalary == s.salary
        r == NetSalaryDefault(requiredSalary).value
    IN  Return([targetTakeHome |-> Round(targetTakeHome),
                requiredGrossSalary |-> Round(requiredSalary),
                actualTakeHome |-> r.net.annualIncome,
                taxPayable |-> r.tax.totalTax,
                superannuation |-> r.superannuation.annual],
               s.evaluations)

(***************************************************************************)
(* Natural numbers beyond the range of the model checker's integers, as    *)
(* sequences of limbs in base 2^15, least significant limb first and       *)
(* without leading zero limbs                                              *)
(***************************************************************************)
LimbBits == 3 * 5

BigBase == 2^LimbBits

Limb(a, i) == IF i <= Len(a) THEN a[i] ELSE 0

Zeros(n) == [i \in 1..n |-> 0]

\* the length of a[1..n] without its leading zero limbs
RECURSIVE BigLen(_, _)
BigLen(a, n) == IF n = 0 THEN 0 ELSE IF a[n] # 0 THEN n ELSE BigLen(a, n - 1)

BigTrim(a) == The({SubSeq(x, 1, BigLen(x, Len(x))) : x \in {a}})

RECURSIVE BigFromNat(_)
BigFromNat(n) == IF n = 0 THEN <<>> ELSE <<n % BigBase>> \o BigFromNat(n \div BigBase)

RECURSIVE BigAddFrom(_, _, _, _)
BigAddFrom(a, b, i, carry) ==
    IF i > Len(a) /\ i > Len(b) THEN (IF carry = 0 THEN <<>> ELSE <<carry>>)
    ELSE The({<<x % BigBase>> \o BigAddFrom(a, b, i + 1, x \div BigBase) :
                 x \in {Limb(a, i) + Limb(b, i) + carry}})

BigAdd(a, b) == The({BigTrim(BigAddFrom(x, y, 1, 0)) : x \in {a}, y \in {b}})

\* a - b for a >= b
RECURSIVE BigSubFrom(_, _, _, _)
BigSubFrom(a, b, i, borrow) ==
    IF i > Len(a) THEN <<>>
    ELSE The({<<IF x < 0 THEN x + BigBase ELSE x>>
                  \o BigSubFrom(a, b, i + 1, IF x < 0 THEN 1 ELSE 0) :
                 x \in {a[i] - Limb(b, i) - borrow}})

BigSub(a, b) == The({BigTrim(BigSubFrom(x, y, 1, 0)) : x \in {a}, y \in {b}})

RECURSIVE BigCmpFrom(_, _, _)
BigCmpFrom(a, b, i) ==
    IF i = 0 THEN 0
    ELSE IF a[i] # b[i] THEN (IF a[i] < b[i] THEN -1 ELSE 1)
    ELSE BigCmpFrom(a, b, i - 1)

\* -1, 0 or 1 as a is below, equal to or above b
BigCmp(a, b) ==
    The({IF Len(x) # Len(y) THEN (IF Len(x) < Len(y) THEN -1 ELSE 1)
         ELSE BigCmpFrom(x, y, Len(x)) :
            x \in {a}, y \in {b}})

\* a * k for 0 <= k < BigBase
RECURSIVE BigScaleFrom(_, _, _, _)
BigScaleFrom(a, k, i, carry) ==
    IF i > Len(a) THEN (IF carry = 0 THEN <<>> ELSE <<carry>>)
    ELSE The({<<x % BigBase>> \o BigScaleFrom(a, k, i + 1, x \div BigBase) :
                 x \in {a[i] * k + carry}})

BigScale(a, k) == The({BigTrim(BigScaleFrom(x, y, 1, 0)) : x \in {a}, y \in {k}})

RECURSIVE BigMulFrom(_, _, _)
BigMulFrom(a, b, i) ==
    IF i > Len(b) THEN <<>>
    ELSE BigAdd(Zeros(i - 1) \o BigScale(a, b[i]), BigMulFrom(a, b, i + 1))

BigMul(a, b) == The({BigTrim(BigMulFrom(x, y, 1)) : x \in {a}, y \in {b}})

\* a * 2^n
BigShl(a, n) ==
    The({IF x = <<>> THEN x
         ELSE Zeros(k \div LimbBits) \o BigScale(x, 2^(k % LimbBits)) :
            x \in {a}, k \in {n}})

\* floor(b / 2^r) for r < LimbBits
BigShrBits(b, r) ==
    BigTrim([i \in 1..Len(b) |->
                (b[i] \div 2^r) + (Limb(b, i + 1) % 2^r) * 2^(LimbBits - r)])

\* floor(a / 2^n)
BigShr(a, n) ==
    The({BigShrBits(IF k \div LimbBits >= Len(x) THEN <<>>
                    ELSE SubSeq(x, k \div LimbBits + 1, Len(x)),
                    k % LimbBits) :
            x \in {a}, k \in {n}})

RECURSIVE BitLength(_)
BitLength(n) == IF n = 0 THEN 0 ELSE 1 + BitLength(n \div 2)

BigBitLength(a) ==
    The({IF x = <<>> THEN 0 ELSE LimbBits * (Len(x) - 1) + BitLength(x[Len(x)]) :
            x \in {a}})

BigIsOdd(a) == The({x # <<>> /\ x[1] % 2 = 1 : x \in {a}})

BigBit(a, i) == (Limb(a, i \div LimbBits + 1) \div 2^(i % LimbBits)) % 2

\* the number of trailing zero bits of a # 0
RECURSIVE BigTrailingZeros(_, _)
BigTrailingZeros(a, i) == IF BigBit(a, i) = 1 THEN i ELSE BigTrailingZeros(a, i + 1)

\* the step of the long division of c.a by c.b that has brought a bit down
\* to the remainder, which is r2 then
BigDivFit(s, c, r2, fits) ==
    [i |-> s.i - 1,
     q |-> BigAdd(BigScale(s.q, 2), BigFromNat(IF fits THEN 1 ELSE 0)),
     r |-> IF fits THEN BigSub(r2, c.b) ELSE r2]

\* one step of the long division of c.a by c.b: bit s.i of c.a is brought down
BigDivStep(s, c) ==
    The({The({BigDivFit(s, c, r2, fits) : fits \in {BigCmp(r2, c.b) >= 0}}) :
            r2 \in {BigAdd(BigScale(s.r, 2), BigFromNat(BigBit(c.a, s.i)))}})

\* quotient q and remainder r of a divided by b # 0
BigDivMod(a, b) ==
    The({Iterate(BigDivStep, [i |-> BigBitLength(x) - 1, q |-> <<>>, r |-> <<>>],
                 [a |-> x, b |-> y], BigBitLength(x)) :
            x \in {a}, y \in {b}})

(***************************************************************************)
(* The Number type: IEEE 754 binary64.  A finite number is sign * m * 2^e   *)
(* with m odd (or zero); every operation rounds the exact result to 53     *)
(* significant bits, ties to even.  The exponent range is not modelled:    *)
(* the magnitudes that occur lie between 2^-1022 and 2^1024.               *)
(***************************************************************************)
SignificandBits == 52 + 1

\* the number sign * m * 2^e in its normal form
Canon(sign, m, e) ==
    The({IF x = <<>> THEN [s |-> 1, m |-> <<>>, e |-> 0]
         ELSE The({[s |-> sign, m |-> BigShr(x, tz), e |-> e + tz] :
                      tz \in {BigTrailingZeros(x, 0)}}) :
            x \in {m}})

\* the double nearest to sign * x * 2^e for x of more than 53 bits, sh the
\* number of bits to drop, q the bits kept and half the dropped bits against
\* one half of the last place
RoundTiesToEven(sign, x, e, sh) ==
    The({The({Canon(sign,
                    IF half > 0 \/ (half = 0 /\ BigIsOdd(q)) THEN BigAdd(q, <<1>>) ELSE q,
                    e + sh) :
                 half \in {BigCmp(BigSub(x, BigShl(q, sh)), BigShl(<<1>>, sh - 1))}}) :
            q \in {BigShr(x, sh)}})

\* the double nearest to sign * m * 2^e
Round64(sign, m, e) ==
    The({IF len <= SignificandBits THEN Canon(sign, x, e)
         ELSE RoundTiesToEven(sign, x, e, len - SignificandBits) :
            x \in {m}, len \in {BigBitLength(m)}})

\* the double of a whole number within the model checker's integers
Fl(n) == Canon(IF n < 0 THEN -1 ELSE 1, BigFromNat(IF n < 0 THEN -n ELSE n), 0)

\* the exact sum of sx * mx * 2^e and sy * my * 2^e, as <<sign, m, e>>
SignedSum(sx, mx, sy, my, e) ==
    IF sx = sy THEN <<sx, BigAdd(mx, my), e>>
    ELSE The({IF c = 0 THEN <<1, <<>>, 0>>
              ELSE IF c > 0 THEN <<sx, BigSub(mx, my), e>>
              ELSE <<sy, BigSub(my, mx), e>> :
                 c \in {BigCmp(mx, my)}})

\* the exact sum of two doubles, as <<sign, m, e>>
ExactSum(x, y) ==
    The({The({The({SignedSum(a.s, mx, b.s, my, e) :
                      mx \in {BigShl(a.m, a.e - e)}, my \in {BigShl(b.m, b.e - e)}}) :
                 e \in {IF a.e < b.e THEN a.e ELSE b.e}}) :
            a \in {x}, b \in {y}})

Neg64(x) == The({IF a.m = <<>> THEN a ELSE [a EXCEPT !.s = -a.s] : a \in {x}})

Add64(x, y) == The({Round64(z[1], z[2], z[3]) : z \in {ExactSum(x, y)}})

Sub64(x, y) == Add64(x, Neg64(y))

Mul64(x, y) ==
    The({Round64(a.s * b.s, BigMul(a.m, b.m), a.e + b.e) : a \in {x}, b \in {y}})

\* a / b for a # 0 and b # 0: the quotient is taken to k more bits, at least
\* 55 in all, and a sticky bit records a remainder
Quotient64(a, b, k) ==
    The({Round64(a.s * b.s,
                 BigAdd(BigScale(qr.q, 2), IF qr.r = <<>> THEN <<>> ELSE <<1>>),
                 a.e - b.e - k - 1) :
            qr \in {BigDivMod(BigShl(a.m, k), b.m)}})

\* x / y for y # 0
Div64(x, y) ==
    The({IF a.m = <<>> THEN a
         ELSE The({Quotient64(a, b, IF need > 0 THEN need ELSE 0) :
                      need \in {SignificandBits + 2 + BigBitLength(b.m)
                                    - BigBitLength(a.m)}}) :
            a \in {x}, b \in {y}})

\* x < y
Lt64(x, y) == The({z[2] # <<>> /\ z[1] < 0 : z \in {ExactSum(x, Neg64(y))}})

Gt64(x, y) == Lt64(y, x)

Le64(x, y) == ~Lt64(y, x)

Min64(x, y) == The({IF Lt64(b, a) THEN b ELSE a : a \in {x}, b \in {y}})

Max64(x, y) == The({IF Lt64(a, b) THEN b ELSE a : a \in {x}, b \in {y}})

\* Math.round of a double a that is not whole, k = -a.e and half = 2^(k-1)
RoundHalfUp(a, k, half) ==
    IF a.s > 0 THEN Canon(1, BigShr(BigAdd(a.m, half), k), 0)
    ELSE IF BigCmp(a.m, half) <= 0 THEN Fl(0)
    ELSE Canon(-1, BigShr(BigAdd(BigSub(a.m, half), BigSub(BigShl(<<1>>, k), <<1>>)), k), 0)

\* Math.round(x): the whole number nearest to x, halves towards +Infinity
MathRound64(x) ==
    The({IF a.e >= 0 THEN a
         ELSE The({RoundHalfUp(a, -a.e, half) : half \in {BigShl(<<1>>, -a.e - 1)}}) :
            a \in {x}})

\* the double written as the decimal literal n / 10^k, for example 0.45 = Dec(45, 2)
Dec(n, k) == Div64(Fl(n), Fl(10^k))

\* the double nearest to a finite exact number: the value of a numeric literal
Number64(q) == Div64(Fl(q[1]), Fl(q[2]))

(***************************************************************************)
(* TaxCalculator in binary64: the salary searches                          *)
(***************************************************************************)
\* the numeric literals of the constructor and of the methods as doubles
Infinity64 == [s |-> 1, m |-> <<>>, e |-> 2^10]

taxBrackets64 ==
    [i \in DOMAIN taxBrackets |->
        [min |-> Number64(taxBrackets[i].min),
         max |-> IF IsInf(taxBrackets[i].max) THEN Infinity64
                 ELSE Number64(taxBrackets[i].max),
         rate |-> Number64(taxBrackets[i].rate),
         baseAmount |-> Number64(taxBrackets[i].baseAmount)]]

medicareRate64 == Number64(medicareRate)

medicareThreshold64 == Number64(medicareThreshold)

litoMax64 == Number64(litoMax)

litoThreshold64 == Number64(litoThreshold)

litoPhaseOutRate64 == Number64(litoPhaseOutRate)

litoPhaseOutEnd64 == Number64(litoPhaseOutEnd)

shadingRate64 == Dec(10, 2)

defaultSuperRate64 == Dec(115, 3)

\* the then branch of the loop body of calculateIncomeTax
IncomeTaxInBracket64(annualIncome, bracket) ==
    The({Add64(bracket.baseAmount,
               Mul64(Add64(Sub64(top, bracket.min), Fl(1)), bracket.rate)) :
            top \in {IF bracket.max = Infinity64 THEN annualIncome
                     ELSE Min64(annualIncome, bracket.max)}})

\* the body of the for loop of calculateIncomeTax for one bracket
IncomeTaxStep64(tax, annualIncome, bracket) ==
    IF Gt64(annualIncome, bracket.min)
    THEN IncomeTaxInBracket64(annualIncome, bracket)
    ELSE tax

RECURSIVE IncomeTaxLoop64(_, _, _)
IncomeTaxLoop64(tax, annualIncome, i) ==
    IF i > Len(taxBrackets64) THEN tax
    ELSE The({IncomeTaxLoop64(t, annualIncome, i + 1) :
                 t \in {IncomeTaxStep64(tax, annualIncome, taxBrackets64[i])}})

calculateIncomeTax64(annualIncome) ==
    The({IncomeTaxLoop64(Fl(0), income, 1) : income \in {annualIncome}})

calculateLITO64(annualIncome) ==
    The({IF Le64(income, litoThreshold64) THEN litoMax64
         ELSE IF Lt64(income, litoPhaseOutEnd64)
              THEN Max64(Fl(0),
                         Sub64(litoMax64,
                               Mul64(Sub64(income, litoThreshold64), litoPhaseOutRate64)))
         ELSE Fl(0) :
            income \in {annualIncome}})

calculateMedicareLevy64(annualIncome) ==
    The({IF Le64(income, medicareThreshold64) THEN Fl(0)
         ELSE IF Le64(income, Add64(medicareThreshold64, Fl(3740)))
              THEN Mul64(Sub64(income, medicareThreshold64), shadingRate64)
         ELSE Mul64(income, medicareRate64) :
            income \in {annualIncome}})

calculateSuper64(annualIncome, superRate) == Mul64(annualIncome, superRate)

\* totalTax and netIncome of calculateNetSalary from the three parts of the tax
NetIncome64(taxableIncome, incomeTax, lito, medicareLevy) ==
    The({[tax |-> [totalTax |-> MathRound64(totalTax)],
          net |-> [annualIncome |->
                      MathRound64(Sub64(Sub64(taxableIncome, totalTax), Fl(0)))]] :
            totalTax \in {Max64(Fl(0), Add64(Sub64(incomeTax, lito), medicareLevy))}})

\* calculateNetSalary(annualSalary) with the default options; of the result,
\* the fields that the salary searches read
calculateNetSalary64(annualSalary) ==
    The({[superannuation |->
              [annual |-> MathRound64(calculateSuper64(salary, defaultSuperRate64))]]
         @@ NetIncome64(taxableIncome,
                        calculateIncomeTax64(taxableIncome),
                        calculateLITO64(taxableIncome),
                        calculateMedicareLevy64(taxableIncome)) :
            salary \in {annualSalary}, taxableIncome \in {Sub64(annualSalary, Fl(0))}})

\* the loop condition  high - low > 1  of the two salary searches
SearchContinues64(s) == Gt64(Sub64(s.high, s.low), Fl(1))

\* the body of the while loop of the two salary searches; salary is
\* requiredSalary or targetSalary
SearchPass64(s) ==
    The({IF Lt64(calculateNetSalary64(mid).net.annualIncome, s.targetTakeHome)
         THEN [s EXCEPT !.low = mid]
         ELSE [s EXCEPT !.high = mid, !.salary = mid] :
            mid \in {Div64(Add64(s.low, s.high), Fl(2))}})

(***************************************************************************)
(* RetirementIncomeCalculator                                              *)
(***************************************************************************)
agePensionMaxSingle == Q(111630, 100)

agePensionMaxCouple == Q(168280, 100)

agePensionAge == I(67)

assetsTestThresholdSingle == I(301750)

assetsTestThresholdCouple == I(451500)

\* one iteration of the depletion loop of calculateSafeWithdrawal; after the
\* break (s.stopped) the remaining iterations do nothing
SafeWithdrawalStep(s, c) ==
    IF s.stopped THEN s
    ELSE
    LET withdrawn == Sub(s.remainingBalance, s.adjustedExpenses)
        remainingBalance == IF Gt(withdrawn, I(0))
                            THEN Mul(withdrawn, Add(I(1), c.expectedReturn))
                            ELSE I(0)
        adjustedExpenses == Mul(s.adjustedExpenses, Add(I(1), c.inflationRate))
    IN  [year |-> s.year + 1,
         remainingBalance |-> remainingBalance,
         adjustedExpenses |-> adjustedExpenses,
         timeline |-> Append(s.timeline,
                          [year |-> I(s.year),
                           withdrawal |-> Round(adjustedExpenses),
                           portfolioValue |-> Round(Max(I(0), remainingBalance)),
                           withdrawalRate |->
                               IF Gt(remainingBalance, I(0))
                               THEN Div(Round(Mul(Div(adjustedExpenses, remainingBalance),
                                                  I(10000))), I(100))
                               ELSE I(0)]),
         stopped |-> Le(remainingBalance, I(0))]

calculateSafeWithdrawal(portfolioValue, annualExpenses, yearsInRetirement, expectedReturn, inflationRate) ==
    LET safeWithdrawal4Percent == Mul(portfolioValue, Q(4, 100))
        dynamicRate == IF Gt(yearsInRetirement, I(40)) THEN Q(35, 1000)
                       ELSE IF Lt(yearsInRetirement, I(20)) THEN Q(45, 1000)
                       ELSE Q(4, 100)
        dynamicSafeWithdrawal == Mul(portfolioValue, dynamicRate)
        requiredWithdrawal == annualExpenses
        actualRate == Div(requiredWithdrawal, portfolioValue)
        estimatedSuccessRate ==
            IF Gt(actualRate, Q(6, 100)) THEN Q(50, 100)
            ELSE IF Gt(actualRate, Q(5, 100)) THEN Q(70, 100)
            ELSE IF Gt(actualRate, Q(4, 100)) THEN Q(90, 100)
            ELSE IF Gt(actualRate, Q(3, 100)) THEN Q(95, 100)
            ELSE I(1)
        s == Iterate(SafeWithdrawalStep,
                     [year |-> 1, remainingBalance |-> portfolioValue,
                      adjustedExpenses |-> annualExpenses, timeline |-> <<>>,
                      stopped |-> FALSE],
                     [expectedReturn |-> expectedReturn, inflationRate |-> inflationRate],
                     ForCount(yearsInRetirement))
    IN  Return([portfolioValue |-> Round(portfolioValue),
                safeWithdrawal4Percent |-> Round(safeWithdrawal4Percent),
                dynamicSafeWithdrawal |-> Round(dynamicSafeWithdrawal),
                recommendedRate |-> Round1(Mul(dynamicRate, I(100))),
                requestedWithdrawal |-> Round(requiredWithdrawal),
                actualRate |-> Div(Round(Mul(actualRate, I(1000))), I(10)),
                estimatedSuccessRate |-> Round(Mul(estimatedSuccessRate, I(100))),
                yearsUntilDepletion |->
                    IF Len(s.timeline) > 0
                    THEN s.timeline[Len(s.timeline)].year
                    ELSE yearsInRetirement,
                timeline |-> s.timeline],
               s.year - 1)

\* variant of AssetsTestPension without the floor at zero
AssetsTestPensionUnclamped(maxPension, assessableAssets, assetsThreshold) ==
    IF Gt(assessableAssets, assetsThreshold)
    THEN LET excessAssets == Sub(assessableAssets, assetsThreshold)
             reduction == Mul(Div(excessAssets, I(1000)), I(3))
         IN  Sub(maxPension, reduction)
    ELSE maxPension

\* the assets-test candidate of calculateAgePension
AssetsTestPension(maxPension, assessableAssets, assetsThreshold) ==
    IF Gt(assessableAssets, assetsThreshold)
    THEN LET excessAssets == Sub(assessableAssets, assetsThreshold)
             reduction == Mul(Div(excessAssets, I(1000)), I(3))
         IN  Max(I(0), Sub(maxPension, reduction))
    ELSE maxPension

\* the income-test candidate of calculateAgePension
IncomeTestPension(maxPension, fortnightlyIncome, incomeFreeArea) ==
    IF Gt(fortnightlyIncome, incomeFreeArea)
    THEN LET excessIncome == Sub(fortnightlyIncome, incomeFreeArea)
             reduction == Mul(excessIncome, Q(50, 100))
         IN  Max(I(0), Sub(maxPension, reduction))
    ELSE maxPension

\* variant of ReductionReason that names the assets test when the candidates
\* are equal
ReductionReasonInclusive(assetsTestPension, incomeTestPension) ==
    IF Le(assetsTestPension, incomeTestPension) THEN "assets" ELSE "income"

\* the binding test recorded by calculateAgePension
ReductionReason(assetsTestPension, incomeTestPension) ==
    IF Lt(assetsTestPension, incomeTestPension) THEN "assets" ELSE "income"

calculateAgePension(age, assessableAssets, annualIncome, isCouple, isHomeowner) ==
    IF Lt(age, agePensionAge)
    THEN Return([eligible |-> FALSE,
                 currentAge |-> age,
                 yearsUntilEligible |-> Sub(agePensionAge, age)], 0)
    ELSE
    LET maxPension == IF isCouple THEN agePensionMaxCouple ELSE agePensionMaxSingle
        assetsThreshold == IF isCouple THEN assetsTestThresholdCouple
                           ELSE assetsTestThresholdSingle
        assetsTestPension == AssetsTestPension(maxPension, assessableAssets, assetsThreshold)
        incomeFreeArea == IF isCouple THEN I(336) ELSE I(190)
        fortnightlyIncome == Div(annualIncome, I(26))
        incomeTestPension == IncomeTestPension(maxPension, fortnightlyIncome, incomeFreeArea)
        fortnightlyPension == Min(assetsTestPension, incomeTestPension)
        annualPension == Mul(fortnightlyPension, I(26))
    IN  Return([eligible |-> Gt(fortnightlyPension, I(0)),
                fortnightlyAmount |-> Round2(fortnightlyPension),
                annualAmount |-> Round(annualPension),
                maxPension |-> Round(Mul(maxPension, I(26))),
                reductionReason |-> ReductionReason(assetsTestPension, incomeTestPension),
                assetsTest |-> [assessableAssets |-> Round(assessableAssets),
                                threshold |-> assetsThreshold,
                                pensionAmount |-> Round(Mul(assetsTestPension, I(26)))],
                incomeTest |-> [annualIncome |-> Round(annualIncome),
                                pensionAmount |-> Round(Mul(incomeTestPension, I(26)))]],
               0)

\* one iteration of the annuity loop of compareAnnuityVsAccountBased
AnnuityStep(s, annualAnnuityPayment) ==
    LET totalAnnuityReceived == Add(s.totalAnnuityReceived, annualAnnuityPayment)
    IN  [year |-> s.year + 1,
         totalAnnuityReceived |-> totalAnnuityReceived,
         timeline |-> Append(s.timeline,
                          [year |-> I(s.year),
                           payment |-> Round(annualAnnuityPayment),
                           totalReceived |-> Round(totalAnnuityReceived),
                           remainingValue |-> I(0)])]

\* one record of the inner loop that fills the years after exhaustion
ZeroFillStep(s, totalAccountReceived) ==
    [y |-> s.y + 1,
     timeline |-> Append(s.timeline,
                      [year |-> I(s.y),
                       payment |-> I(0),
                       totalReceived |-> Round(totalAccountReceived),
                       remainingValue |-> I(0)])]

\* variant of AccountStep that records the balance without the floor at zero
AccountStepUnclamped(s, c) ==
    IF s.stopped THEN s
    ELSE
    LET withdrawal == Mul(s.accountBalance, Q(5, 100))
        accountBalance == Mul(Sub(s.accountBalance, withdrawal),
                              Add(I(1), c.investmentReturn))
        totalAccountReceived == Add(s.totalAccountReceived, withdrawal)
        timeline == Append(s.timeline,
                        [year |-> I(s.year),
                         payment |-> Round(withdrawal),
                         totalReceived |-> Round(totalAccountReceived),
                         remainingValue |-> Round(accountBalance)])
        exhausted == Le(accountBalance, I(0))
    IN  [year |-> s.year + 1,
         accountBalance |-> accountBalance,
         totalAccountReceived |-> totalAccountReceived,
         timeline |-> IF exhausted
                      THEN Iterate(ZeroFillStep, [y |-> s.year + 1, timeline |-> timeline],
                                   totalAccountReceived, c.years - s.year).timeline
                      ELSE timeline,
         stopped |-> exhausted]

\* one iteration of the account-based loop; after the break nothing changes
AccountStep(s, c) ==
    IF s.stopped THEN s
    ELSE
    LET withdrawal == Mul(s.accountBalance, Q(5, 100))
        accountBalance == Mul(Sub(s.accountBalance, withdrawal),
                              Add(I(1), c.investmentReturn))
        totalAccountReceived == Add(s.totalAccountReceived, withdrawal)
        timeline == Append(s.timeline,
                        [year |-> I(s.year),
                         payment |-> Round(withdrawal),
                         totalReceived |-> Round(totalAccountReceived),
                         remainingValue |-> Round(Max(I(0), accountBalance))])
        exhausted == Le(accountBalance, I(0))
    IN  [year |-> s.year + 1,
         accountBalance |-> accountBalance,
         totalAccountReceived |-> totalAccountReceived,
         timeline |-> IF exhausted
                      THEN Iterate(ZeroFillStep, [y |-> s.year + 1, timeline |-> timeline],
                                   totalAccountReceived, c.years - s.year).timeline
                      ELSE timeline,
         stopped |-> exhausted]

compareAnnuityVsAccountBased(superBalance, annuityRate, investmentReturn, yearsInRetirement, inflationRate) ==
    LET annualAnnuityPayment == Mul(superBalance, annuityRate)
        years == ForCount(yearsInRetirement)
        a == Iterate(AnnuityStep,
                     [year |-> 1, totalAnnuityReceived |-> I(0), timeline |-> <<>>],
                     annualAnnuityPayment, years)
        b == Iterate(AccountStep,
                     [year |-> 1, accountBalance |-> superBalance,
                      totalAccountReceived |-> I(0), timeline |-> <<>>, stopped |-> FALSE],
                     [investmentReturn |-> investmentReturn, years |-> years],
                     years)
    IN  IF Len(b.timeline) = 0
        THEN Throw(UndefinedRead("remainingValue"),
                   (a.year - 1) + (b.year - 1))
        ELSE
        LET finalAccountBalance == b.timeline[Len(b.timeline)].remainingValue
            accountTotal == Add(b.totalAccountReceived, finalAccountBalance)
        IN  Return([initialBalance |-> Round(superBalance),
                    annuity |-> [annualPayment |-> Round(annualAnnuityPayment),
                                 totalReceived |-> Round(a.totalAnnuityReceived),
                                 residualValue |-> I(0),
                                 timeline |-> a.timeline],
                    accountBased |-> [initialPayment |-> Round(b.timeline[1].payment),
                                      totalReceived |-> Round(b.totalAccountReceived),
                                      residualValue |-> finalAccountBalance,
                                      timeline |-> b.timeline],
                    comparison |->
                        [totalDifference |->
                             Round(Sub(accountTotal, a.totalAnnuityReceived)),
                         better |-> IF Gt(accountTotal, a.totalAnnuityReceived)
                                    THEN "accountBased" ELSE "annuity"]],
                   (a.year - 1) + (b.year - 1))

(***************************************************************************)
(* NetWorthCalculator                                                      *)
(***************************************************************************)
\* one iteration of the inner (monthly) loop of projectNetWorthGrowth
NetWorthMonth(s, c) ==
    LET returns == Mul(s.netWorth, c.monthlyReturn)
    IN  [s EXCEPT !.netWorth = Add(s.netWorth, Add(returns, c.monthlySavings)),
                  !.totalContributions = Add(s.totalContributions, c.monthlySavings),
                  !.totalReturns = Add(s.totalReturns, returns),
                  !.months = @ + 1]

\* one iteration of the outer (yearly) loop of projectNetWorthGrowth
NetWorthYear(s, c) ==
    LET t == Iterate(NetWorthMonth, s, c, 12)
    IN  [t EXCEPT !.year = @ + 1,
                  !.projection = Append(@, [year |-> I(s.year),
                                            netWorth |-> Round(t.netWorth),
                                            totalContributions |->
                                                Round(t.totalContributions),
                                            totalReturns |-> Round(t.totalReturns)])]

projectNetWorthGrowth(currentNetWorth, monthlySavings, investmentReturn, years) ==
    LET s == Iterate(NetWorthYear,
                     [year |-> 1, months |-> 0, netWorth |-> currentNetWorth,
                      totalContributions |-> I(0), totalReturns |-> I(0),
                      projection |-> <<[year |-> I(0),
                                        netWorth |-> Round(currentNetWorth),
                                        totalContributions |-> I(0),
                                        totalReturns |-> I(0)]>>],
                     [monthlyReturn |-> Div(investmentReturn, I(12)),
                      monthlySavings |-> monthlySavings],
                     ForCount(years))
    IN  Return([projection |-> s.projection], s.months)

(***************************************************************************)
(* MortgageVsRentCalculator                                                *)
(***************************************************************************)
defaultMaintenanceCostRate == Q(1, 100)

calculateStampDuty(propertyPrice) ==
    IF Le(propertyPrice, I(14000)) THEN Mul(propertyPrice, Q(125, 10000))
    ELSE IF Le(propertyPrice, I(32000))
    THEN Add(I(175), Mul(Sub(propertyPrice, I(14000)), Q(15, 1000)))
    ELSE IF Le(propertyPrice, I(85000))
    THEN Add(I(445), Mul(Sub(propertyPrice, I(32000)), Q(175, 10000)))
    ELSE IF Le(propertyPrice, I(319000))
    THEN Add(Q(13725, 10), Mul(Sub(propertyPrice, I(85000)), Q(35, 1000)))
    ELSE IF Le(propertyPrice, I(1064000))
    THEN Add(Q(95675, 10), Mul(Sub(propertyPrice, I(319000)), Q(45, 1000)))
    ELSE Add(Q(430725, 10), Mul(Sub(propertyPrice, I(1064000)), Q(55, 1000)))

\* the payment formula of calculateComparison (no branch for a zero rate)
MonthlyMortgage(loanAmount, monthlyRate, totalPayments) ==
    LET growth == Pow(Add(I(1), monthlyRate), totalPayments[1])
    IN  Div(Mul(loanAmount, Mul(monthlyRate, growth)), Sub(growth, I(1)))

\* one month of the loan inside a comparison year
MortgageMonth(remainingBalance, c) ==
    LET interest == Mul(remainingBalance, c.monthlyRate)
        principal == Sub(c.monthlyMortgage, interest)
    IN  Max(I(0), Sub(remainingBalance, principal))

\* one month of investing the difference while the mortgage costs more than rent
InvestMonth(rentingInvestmentValue, c) ==
    Mul(Add(rentingInvestmentValue, c.monthlySavings),
        Add(I(1), Div(c.investmentReturnRate, I(12))))

\* one iteration of the year loop of calculateComparison
ComparisonYear(s, c) ==
    LET annualMortgagePayment == Mul(c.monthlyMortgage, I(12))
        maintenanceCost == Mul(s.propertyValue, defaultMaintenanceCostRate)
        councilRates == I(2000)
        insuranceCost == I(1500)
        annualCost == Add(Add(Add(annualMortgagePayment, maintenanceCost), councilRates),
                          insuranceCost)
        remainingBalance == Iterate(MortgageMonth, s.remainingBalance, c, 12)
        buyingTotalCost == Add(s.buyingTotalCost, annualCost)
        propertyValue == Mul(s.propertyValue, Add(I(1), c.propertyAppreciationRate))
        buyingNetPosition == Sub(Sub(propertyValue, remainingBalance), buyingTotalCost)
        annualRent == Mul(s.currentRent, I(12))
        rentingTotalCost == Add(s.rentingTotalCost, annualRent)
        monthlySavings == Sub(c.monthlyMortgage, s.currentRent)
        invested == IF Gt(monthlySavings, I(0))
                    THEN Iterate(InvestMonth, s.rentingInvestmentValue,
                                 [monthlySavings |-> monthlySavings,
                                  investmentReturnRate |-> c.investmentReturnRate], 12)
                    ELSE Add(s.rentingInvestmentValue, Mul(monthlySavings, I(12)))
        rentingInvestmentValue ==
            IF s.year = 1
            THEN Add(Mul(c.deposit, Add(I(1), c.investmentReturnRate)),
                     Mul(monthlySavings, I(12)))
            ELSE invested
        rentingNetPosition == Sub(rentingInvestmentValue, rentingTotalCost)
    IN  [year |-> s.year + 1,
         buyingTotalCost |-> buyingTotalCost,
         rentingTotalCost |-> rentingTotalCost,
         rentingInvestmentValue |-> rentingInvestmentValue,
         propertyValue |-> propertyValue,
         remainingBalance |-> remainingBalance,
         currentRent |-> Mul(s.currentRent, Add(I(1), c.rentIncreaseRate)),
         buyingTimeline |-> Append(s.buyingTimeline,
             [year |-> I(s.year),
              totalCost |-> Round(buyingTotalCost),
              propertyValue |-> Round(propertyValue),
              remainingBalance |-> Round(remainingBalance),
              equity |-> Round(Sub(propertyValue, remainingBalance)),
              netPosition |-> Round(buyingNetPosition),
              annualCost |-> Round(annualCost)]),
         rentingTimeline |-> Append(s.rentingTimeline,
             [year |-> I(s.year),
              totalCost |-> Round(rentingTotalCost),
              investmentValue |-> Round(rentingInvestmentValue),
              netPosition |-> Round(rentingNetPosition),
              annualCost |-> Round(annualRent)])]

\* the break-even loop from index i (1-based): the first year in which buying
\* is at least level with renting, 0 for null
RECURSIVE BreakEvenLoop(_, _, _)
BreakEvenLoop(buyingTimeline, rentingTimeline, i) ==
    IF i > Len(buyingTimeline) THEN 0
    ELSE IF Ge(buyingTimeline[i].netPosition, rentingTimeline[i].netPosition) THEN i
    ELSE BreakEvenLoop(buyingTimeline, rentingTimeline, i + 1)

\* index i of the break-even loop reads past the end of the timelines: a
\* fractional horizon whose recorded years never break even
BreakEvenReadsPastEnd(s, years) ==
    /\ IsFinite(years) /\ years[1] > 0 /\ ~IsWhole(years)
    /\ BreakEvenLoop(s.buyingTimeline, s.rentingTimeline, 1) = 0

\* buyingTimeline[years - 1] is not an element of the timeline
FinalYearMissing(s, years) ==
    ~(IsWhole(years) /\ years[1] >= 1 /\ years[1] <= Len(s.buyingTimeline))

calculateComparison(propertyPrice, deposit, mortgageRate, mortgageTerm, monthlyRent, rentIncreaseRate, propertyAppreciationRate, investmentReturnRate, years) ==
    LET loanAmount == Sub(propertyPrice, deposit)
        monthlyRate == Div(mortgageRate, I(12))
        totalPayments == Mul(mortgageTerm, I(12))
        monthlyMortgage == MonthlyMortgage(loanAmount, monthlyRate, totalPayments)
        stampDuty == calculateStampDuty(propertyPrice)
        otherBuyingCosts == Mul(propertyPrice, Q(5, 100))
        totalUpfrontCosts == Add(Add(deposit, stampDuty), otherBuyingCosts)
        s == Iterate(ComparisonYear,
                     [year |-> 1,
                      buyingTotalCost |-> totalUpfrontCosts,
                      rentingTotalCost |-> I(0),
                      rentingInvestmentValue |-> deposit,
                      propertyValue |-> propertyPrice,
                      remainingBalance |-> loanAmount,
                      currentRent |-> monthlyRent,
                      buyingTimeline |-> <<>>,
                      rentingTimeline |-> <<>>],
                     [monthlyRate |-> monthlyRate,
                      monthlyMortgage |-> monthlyMortgage,
                      deposit |-> deposit,
                      rentIncreaseRate |-> rentIncreaseRate,
                      propertyAppreciationRate |-> propertyAppreciationRate,
                      investmentReturnRate |-> investmentReturnRate],
                     ForCount(years))
        breakEvenYear == BreakEvenLoop(s.buyingTimeline, s.rentingTimeline, 1)
    IN  IF BreakEvenReadsPastEnd(s, years) \/ FinalYearMissing(s, years)
        THEN Throw(UndefinedRead("netPosition"),
                   s.year - 1)
        ELSE
        LET n == years[1]
        IN  Return([buying |-> [upfrontCosts |-> Round(totalUpfrontCosts),
                                stampDuty |-> Round(stampDuty),
                                monthlyPayment |-> Round(monthlyMortgage),
                                finalPropertyValue |-> Round(s.propertyValue),
                                finalEquity |->
                                    Round(Sub(s.propertyValue, s.remainingBalance)),
                                totalCost |-> Round(s.buyingTotalCost),
                                finalNetPosition |-> s.buyingTimeline[n].netPosition,
                                timeline |-> s.buyingTimeline],
                    renting |-> [initialInvestment |-> Round(deposit),
                                 monthlyRent |-> Round(monthlyRent),
                                 finalInvestmentValue |-> Round(s.rentingInvestmentValue),
                                 totalCost |-> Round(s.rentingTotalCost),
                                 finalNetPosition |-> s.rentingTimeline[n].netPosition,
                                 timeline |-> s.rentingTimeline],
                    comparison |->
                        [breakEvenYear |-> breakEvenYear,
                         buyingAdvantage |-> Sub(s.buyingTimeline[n].netPosition,
                                                 s.rentingTimeline[n].netPosition),
                         better |-> IF Ge(s.buyingTimeline[n].netPosition,
                                          s.rentingTimeline[n].netPosition)
                                    THEN "buying" ELSE "renting"]],
                   s.year - 1)

(***************************************************************************)
(* Bounds and input domains                                                *)
(***************************************************************************)
\* largest whole number of years a simulation is run for
MaxYears == 2

\* year counts: non-positive, fractional and whole
YearValues == {I(y) : y \in -1..MaxYears} \cup {Q(1, 2), Q(3, 2)}

FireExpenses == {I(0), I(1), I(2500), I(3000), Q(5, 2)}

FireRates == {Q(-1, 100), I(0), Q(1, 100), Q(1, 25), Q(1, 20), Q(1, 2), I(1)}

FireGoals == {I(-1), I(0), I(1), I(720000), I(900000), Q(1, 3)}

\* (annual rate, compounding frequency, years): a non-zero rate is paired with
\* period counts that keep (1 + ratePerPeriod)^totalPeriods small
SavingsScenarios ==
    {<<I(0), f, y>> : f \in {"daily", "monthly", "quarterly", "annually", "weekly"},
                      y \in YearValues}
    \cup {<<r, "annually", y>> : r \in {Q(1, 10), I(1)}, y \in YearValues}
    \cup {<<I(4), "quarterly", y>> : y \in YearValues}
    \cup {<<I(12), "monthly", y>> : y \in {I(-1), I(0), Q(1, 4), Q(1, 2), Q(3, 2)}}

\* (initial balance, target, monthly contribution, annual rate): a non-zero
\* rate is paired with balances that stay small
TimeToGoalScenarios ==
    {<<b, t, cr[1], cr[2]>> :
        b \in {I(0), I(10), I(1000)},
        t \in {I(-5), I(0), I(10), I(500), I(1000), I(1200), I(2000)},
        cr \in {<<I(0), I(0)>>, <<I(-1), I(0)>>, <<I(1), I(0)>>, <<I(100), I(0)>>,
                <<I(0), I(-1)>>, <<I(0), I(12)>>, <<I(1), I(12)>>}}
    \cup {<<I(1000), I(1010), I(0), Q(6, 100)>>, <<I(1000), I(1015), I(5), Q(6, 100)>>}

\* (initial balance, target, years, annual rate): a non-zero rate goes with a
\* whole number of months
RequiredContributionScenarios ==
    {<<b, t, y, I(0)>> : b \in {I(0), I(1000)}, t \in {I(0), I(1000), I(2200)},
                         y \in YearValues}
    \cup {<<b, t, y, I(12)>> : b \in {I(0), I(1000)}, t \in {I(0), I(1000), I(2200)},
                               y \in {I(-1), I(0), Q(1, 12), Q(1, 4), I(1)}}

SavingsBalances == {I(0), I(5), I(10)}

SavingsContributions == {I(0), I(1)}

\* (loan amount, annual rate, term in years, payment frequency); Math.pow is
\* modelled for whole exponents, so a fractional payment count goes with rate 0
LoanScenarios ==
    {<<a, I(0), y, f>> : a \in {I(-1), I(0), I(1200), I(300000)},
                         y \in YearValues \cup {Q(1, 8), Q(1, 4)},
                         f \in {"weekly", "fortnightly", "monthly", "yearly"}}
    \cup {<<a, I(12), y, "monthly">> : a \in {I(0), I(100)},
                                       y \in {I(-1), I(0), Q(1, 12), Q(1, 2), I(1)}}
    \cup {<<I(100), I(52), Q(1, 4), "weekly">>,
          <<I(100), I(26), Q(1, 2), "fortnightly">>,
          <<I(1000), Q(1, 20), Q(1, 6), "monthly">>,
          <<I(-5), Q(1, 20), I(-1), "monthly">>}

\* (return rate, inflation rate, fee rate, years to retirement); the rates are
\* chosen so that the yearly growth factor 1 + 0.85 * return - fee is 1, 2 or
\* -12/5, and the default rates run for at most one year
RetirementScenarios ==
    {<<g[1], g[2], g[3], y>> :
        g \in {<<Q(1, 100), I(0), Q(85, 10000)>>, <<I(0), I(0), I(0)>>,
               <<Q(20, 17), I(1), I(0)>>, <<I(-4), I(0), I(0)>>},
        y \in YearValues}
    \cup {<<Q(7, 100), Q(25, 1000), Q(85, 10000), y>> : y \in {Q(1, 2), I(1)}}

RetirementIncomes == {I(-4000), I(0), I(4000)}

RetirementSupers == {I(0), I(1000)}

PersonalRates == {I(0), Q(1, 100), Q(1, 10), Q(5001, 50000)}

\* (current age, retirement age, current super, target balance, annual income)
ContributionScenarios ==
    {<<ag[1], ag[2], cs, t, inc>> :
        ag \in {<<I(30), I(31)>>, <<I(30), I(30)>>, <<I(31), I(30)>>},
        cs \in {I(0), I(1000)},
        t \in {I(500), I(1000), I(3000), I(100000)},
        inc \in {I(0), I(8000)}}

TaxIncomes ==
    {I(-1), I(0), I(1), I(18200), Q(36401, 2), I(18201), I(18202), I(24276), I(25000),
     I(28016), I(30000), I(37500), I(45000), I(45001), I(45002), I(50000), I(66667),
     I(100000), I(120000), I(120001), I(150000), I(180000), I(180001), I(200000)}

\* incomes around the Medicare levy threshold and its shading band
MedicareIncomes ==
    {I(-1), I(0), I(24276), Q(48553, 2), I(24277), I(26146), I(28015), I(28016),
     Q(56033, 2), I(28017), I(50000)}

\* incomes around the thresholds of the low income tax offset
LitoIncomes ==
    {I(-1), I(0), I(37500), I(37501), I(40000), I(51499), I(51500), I(51501),
     I(60000), I(66666), I(66667), I(66668), I(100000)}

\* whole and fractional incomes in and between the tax brackets
MarginalIncomes ==
    {I(-1), I(0), I(1), I(18200), Q(36401, 2), I(18201), I(30000), I(45000),
     Q(90001, 2), I(45001), I(120000), Q(480001, 4), I(120001), I(180000),
     Q(360001, 2), I(180001), I(250000)}

\* property prices at, next to and between the stamp duty thresholds
PropertyPrices ==
    {I(0), I(1), I(14000), I(14001), I(32000), I(32001), I(85000), I(85001),
     I(319000), I(319001), I(1064000), I(1064001), I(500000), I(2000000)}

\* (annual salary, super in package, pre-tax deductions, post-tax deductions);
\* a package salary is a multiple of 1.115 so that the base salary is whole
NetSalaryScenarios ==
    {<<x, FALSE, pre, post>> : x \in TaxIncomes, pre \in {I(0), I(1000)},
                               post \in {I(0), I(500)}}
    \cup {<<x, TRUE, I(0), I(0)>> : x \in {I(0), I(22300), I(55750), I(111500), I(223000)}}

\* take-home targets: powers of two, and 413 * 2^6, keep every midpoint a small
\* dyadic number
TakeHomeTargets ==
    {I(-5), I(0), I(3), I(1024), I(26432), I(32768), I(65536), I(131072)}

\* how far below a returned salary lower salaries are looked at
LookBelow == 256

\* (current salary, desired take-home increase)
IncreaseScenarios ==
    {<<I(65536), I(0)>>, <<I(65536), I(1000)>>, <<I(32768), I(5000)>>,
     <<I(65536), I(200000)>>, <<I(0), I(1000)>>, <<I(131072), I(1)>>}

\* (years in retirement, expected return, inflation rate)
WithdrawalScenarios ==
    {<<y, r, i>> : y \in YearValues, r \in {I(0), Q(1, 2)}, i \in {I(0), I(1)}}
    \cup {<<I(25), I(0), I(0)>>, <<I(45), I(0), I(0)>>}

WithdrawalPortfolios == {I(0), I(1000), I(100000)}

WithdrawalExpenses == {I(0), I(40), I(600), I(4000)}

PensionAges == {I(60), I(67), I(70)}

PensionAssets ==
    {I(-1000), I(0), I(301750), I(301751), I(400000), I(451500), I(500000), I(1000000)}

PensionIncomes == {I(-100), I(0), I(4940), I(4941), I(8736), I(20000), I(100000)}

AnnuityBalances == {I(0), Q(1, 5), I(1000), I(100000)}

AnnuityRates == {I(0), Q(1, 20)}

AnnuityReturns == {I(-2), I(-1), I(0), Q(1, 19), I(1)}

\* (investment return, years): a monthly return of 100% runs for one year
NetWorthScenarios ==
    {<<I(0), y>> : y \in YearValues}
    \cup {<<I(12), y>> : y \in {I(-1), I(0), Q(1, 2), I(1), Q(3, 2)}}

NetWorthValues == {I(-500), I(0), I(1000)}

NetWorthSavings == {I(0), I(100)}

\* (property price, deposit, mortgage rate, mortgage term, monthly rent, rent
\* increase rate, property appreciation rate, investment return rate, years)
ComparisonScenarios ==
    {<<pd[1], pd[2], mr, pd[3], rent, I(0), ap, I(0), y>> :
        pd \in {<<I(1000), I(200), Q(1, 12)>>, <<I(1000), I(200), I(1)>>,
                <<I(100000), I(20000), Q(1, 12)>>},
        mr \in {I(0), I(12)},
        rent \in {I(10), I(5000)},
        ap \in {I(0), Q(1, 20)},
        y \in YearValues}
    \cup {<<I(1000), I(200), I(12), Q(1, 12), I(10), Q(1, 10), Q(1, 20), I(12), y>> :
             y \in {I(0), I(1), I(2)}}

(***************************************************************************)
(* The operations as actions                                               *)
(***************************************************************************)
\* the fields the constructors give the instances the router creates
Constructed ==
    [calculator |-> <<>>,
     superCalculator |-> [defaultSGRate |-> defaultSGRate,
                          contributionsTaxRate |-> contributionsTaxRate,
                          earningsTaxRate |-> earningsTaxRate,
                          medicareLevyRate |-> Q(2, 100)],
     netWorthCalculator |->
         [assetCategories |-> <<"Cash & Savings", "Investments", "Superannuation",
                                "Real Estate", "Vehicles", "Other Assets">>,
          liabilityCategories |-> <<"Mortgage", "Car Loans", "Credit Cards",
                                    "Student Loans", "Personal Loans", "Other Debts">>],
     savingsCalculator |->
         [defaultInterestRate |-> Q(3, 100),
          compoundingFrequencies |->
              [f \in {"daily", "monthly", "quarterly", "annually"} |->
                  compoundingFrequencies(f)]],
     loanCalculator |-> [defaultInterestRate |-> Q(5, 100)],
     mortgageVsRentCalculator |->
         [defaultPropertyAppreciationRate |-> Q(5, 100),
          defaultMaintenanceCostRate |-> defaultMaintenanceCostRate,
          defaultInvestmentReturnRate |-> Q(7, 100)],
     retirementIncomeCalculator |->
         [agePensionMaxSingle |-> agePensionMaxSingle,
          agePensionMaxCouple |-> agePensionMaxCouple,
          agePensionAge |-> agePensionAge,
          assetsTestThresholdSingle |-> assetsTestThresholdSingle,
          assetsTestThresholdCouple |-> assetsTestThresholdCouple],
     taxCalculator |-> [taxBrackets |-> taxBrackets,
                        medicareRate |-> medicareRate,
                        medicareThreshold |-> medicareThreshold,
                        litoMax |-> litoMax,
                        litoThreshold |-> litoThreshold,
                        litoPhaseOutRate |-> litoPhaseOutRate,
                        litoPhaseOutEnd |-> litoPhaseOutEnd]]

Init ==
    /\ phase = "idle"
    /\ op = "none"
    /\ args = NoResult
    /\ result = NoResult
    /\ err = NoError
    /\ steps = 0
    /\ instances = Constructed

CalculateSavingsGoal ==
    \E e \in FireExpenses, r \in FireRates :
        Called("calculateSavingsGoal", [monthlyExpenses |-> e, withdrawalRate |-> r],
               calculateSavingsGoal(e, r))

CalculateWithdrawalRate ==
    \E g \in FireGoals, e \in FireExpenses :
        Called("calculateWithdrawalRate", [savingsGoal |-> g, monthlyExpenses |-> e],
               calculateWithdrawalRate(g, e))

CalculateSavingsGrowth ==
    \E b \in SavingsBalances, m \in SavingsContributions, sc \in SavingsScenarios :
        Called("calculateSavingsGrowth",
               [initialBalance |-> b, monthlyContribution |-> m,
                annualInterestRate |-> sc[1], years |-> sc[3],
                compoundingFrequency |-> sc[2]],
               calculateSavingsGrowth(b, m, sc[1], sc[3], sc[2]))

CalculateTimeToGoal ==
    \E sc \in TimeToGoalScenarios :
        Called("calculateTimeToGoal",
               [initialBalance |-> sc[1], targetAmount |-> sc[2],
                monthlyContribution |-> sc[3], annualInterestRate |-> sc[4]],
               calculateTimeToGoal(sc[1], sc[2], sc[3], sc[4]))

CalculateRequiredContribution ==
    \E sc \in RequiredContributionScenarios :
        Called("calculateRequiredContribution",
               [initialBalance |-> sc[1], targetAmount |-> sc[2], years |-> sc[3],
                annualInterestRate |-> sc[4]],
               calculateRequiredContribution(sc[1], sc[2], sc[3], sc[4]))

CalculateLoanRepayment ==
    \E sc \in LoanScenarios :
        Called("calculateLoanRepayment",
               [loanAmount |-> sc[1], annualInterestRate |-> sc[2],
                loanTermYears |-> sc[3], paymentFrequency |-> sc[4]],
               calculateLoanRepayment(sc[1], sc[2], sc[3], sc[4]))

CalculateRetirementBalance ==
    \E sc \in RetirementScenarios, inc \in RetirementIncomes, cs \in RetirementSupers,
       p \in PersonalRates :
        Called("calculateRetirementBalance",
               [currentAge |-> I(30), retirementAge |-> Add(I(30), sc[4]),
                currentSuper |-> cs, annualIncome |-> inc,
                employerContributionRate |-> defaultSGRate,
                personalContributionRate |-> p,
                returnRate |-> sc[1], inflationRate |-> sc[2], feeRate |-> sc[3]],
               calculateRetirementBalance(I(30), Add(I(30), sc[4]), cs, inc, defaultSGRate,
                                          p, sc[1], sc[2], sc[3]))

CalculateRequiredContributions ==
    \E sc \in ContributionScenarios :
        Called("calculateRequiredContributions",
               [currentAge |-> sc[1], retirementAge |-> sc[2], currentSuper |-> sc[3],
                targetBalance |-> sc[4], annualIncome |-> sc[5], returnRate |-> Q(1, 100)],
               calculateRequiredContributions(sc[1], sc[2], sc[3], sc[4], sc[5], Q(1, 100)))

CalculateIncomeTax ==
    \E x \in TaxIncomes :
        Called("calculateIncomeTax", [annualIncome |-> x],
               Return([value |-> calculateIncomeTax(x)], 0))

CalculateMedicareLevy ==
    \E x \in MedicareIncomes :
        Called("calculateMedicareLevy", [annualIncome |-> x],
               Return([value |-> calculateMedicareLevy(x)], 0))

CalculateLITO ==
    \E x \in LitoIncomes :
        Called("calculateLITO", [annualIncome |-> x],
               Return([value |-> calculateLITO(x)], 0))

GetMarginalTaxRate ==
    \E x \in MarginalIncomes :
        Called("getMarginalTaxRate", [taxableIncome |-> x],
               Return([value |-> getMarginalTaxRate(x)], 0))

CalculateStampDuty ==
    \E x \in PropertyPrices :
        Called("calculateStampDuty", [propertyPrice |-> x],
               Return([value |-> calculateStampDuty(x)], 0))

CalculateNetSalary ==
    \E sc \in NetSalaryScenarios :
        Called("calculateNetSalary",
               [annualSalary |-> sc[1], includeSuperInPackage |-> sc[2],
                superRate |-> defaultSGRate, preTaxDeductions |-> sc[3],
                postTaxDeductions |-> sc[4]],
               calculateNetSalary(sc[1], sc[2], defaultSGRate, sc[3], sc[4]))

CalculateRequiredGrossSalary ==
    \E t \in TakeHomeTargets :
        Called("calculateRequiredGrossSalary", [targetTakeHome |-> t],
               calculateRequiredGrossSalary(t))

CalculateRequiredSalaryIncrease ==
    \E sc \in IncreaseScenarios :
        Called("calculateRequiredSalaryIncrease",
               [currentSalary |-> sc[1], desiredTakeHomeIncrease |-> sc[2]],
               calculateRequiredSalaryIncrease(sc[1], sc[2]))

CalculateSafeWithdrawal ==
    \E v \in WithdrawalPortfolios, e \in WithdrawalExpenses, sc \in WithdrawalScenarios :
        Called("calculateSafeWithdrawal",
               [portfolioValue |-> v, annualExpenses |-> e, yearsInRetirement |-> sc[1],
                expectedReturn |-> sc[2], inflationRate |-> sc[3]],
               calculateSafeWithdrawal(v, e, sc[1], sc[2], sc[3]))

CalculateAgePension ==
    \E age \in PensionAges, assets \in PensionAssets, inc \in PensionIncomes,
       isCouple \in BOOLEAN, isHomeowner \in BOOLEAN :
        Called("calculateAgePension",
               [age |-> age, assessableAssets |-> assets, annualIncome |-> inc,
                isCouple |-> isCouple, isHomeowner |-> isHomeowner],
               calculateAgePension(age, assets, inc, isCouple, isHomeowner))

CompareAnnuityVsAccountBased ==
    \E b \in AnnuityBalances, ar \in AnnuityRates, ir \in AnnuityReturns, y \in YearValues :
        Called("compareAnnuityVsAccountBased",
               [superBalance |-> b, annuityRate |-> ar, investmentReturn |-> ir,
                yearsInRetirement |-> y, inflationRate |-> Q(25, 1000)],
               compareAnnuityVsAccountBased(b, ar, ir, y, Q(25, 1000)))

ProjectNetWorthGrowth ==
    \E w \in NetWorthValues, m \in NetWorthSavings, sc \in NetWorthScenarios :
        Called("projectNetWorthGrowth",
               [currentNetWorth |-> w, monthlySavings |-> m, investmentReturn |-> sc[1],
                years |-> sc[2]],
               projectNetWorthGrowth(w, m, sc[1], sc[2]))

CalculateComparison ==
    \E sc \in ComparisonScenarios :
        Called("calculateComparison",
               [propertyPrice |-> sc[1], deposit |-> sc[2], mortgageRate |-> sc[3],
                mortgageTerm |-> sc[4], monthlyRent |-> sc[5], rentIncreaseRate |-> sc[6],
                propertyAppreciationRate |-> sc[7], investmentReturnRate |-> sc[8],
                years |-> sc[9]],
               calculateComparison(sc[1], sc[2], sc[3], sc[4], sc[5], sc[6], sc[7], sc[8],
                                   sc[9]))

Next ==
    \/ CalculateSavingsGoal
    \/ CalculateWithdrawalRate
    \/ CalculateSavingsGrowth
    \/ CalculateTimeToGoal
    \/ CalculateRequiredContribution
    \/ CalculateLoanRepayment
    \/ CalculateRetirementBalance
    \/ CalculateRequiredContributions
    \/ CalculateIncomeTax
    \/ CalculateMedicareLevy
    \/ CalculateLITO
    \/ GetMarginalTaxRate
    \/ CalculateStampDuty
    \/ CalculateNetSalary
    \/ CalculateRequiredGrossSalary
    \/ CalculateRequiredSalaryIncrease
    \/ CalculateSafeWithdrawal
    \/ CalculateAgePension
    \/ CompareAnnuityVsAccountBased
    \/ ProjectNetWorthGrowth
    \/ CalculateComparison
    \/ Respond

Spec == Init /\ [][Next]_vars

(***************************************************************************)
(* The salary searches of TaxCalculator pass by pass, in binary64          *)
(***************************************************************************)
\* the number of passes of a search that are followed
MaxPasses == 64

\* take-home targets, the last three 2^52, 2^53 and 10^16
GrossTargets64 ==
    {Fl(3), Fl(1000), Fl(65536), Fl(100000), Canon(1, <<1>>, 52), Canon(1, <<1>>, 53),
     Mul64(Fl(10^8), Fl(10^8))}

\* (current salary, desired take-home increase), the last one (2^53, 10^15)
IncreaseScenarios64 ==
    {<<Fl(65536), Fl(1000)>>, <<Fl(100000), Fl(5000)>>, <<Fl(100000), Fl(200000)>>,
     <<Canon(1, <<1>>, 53), Mul64(Fl(10^8), Fl(10^7))>>}

\* calculateRequiredGrossSalary up to its while loop
BeginRequiredGrossSalary ==
    \E t \in GrossTargets64 :
        /\ phase = "idle"
        /\ phase' = "searching"
        /\ op' = "calculateRequiredGrossSalary"
        /\ args' = [targetTakeHome |-> t]
        /\ result' = [low |-> t, high |-> Mul64(t, Fl(2)), salary |-> t,
                      targetTakeHome |-> t]
        /\ err' = NoError
        /\ steps' = 0
        /\ UNCHANGED instances

\* calculateRequiredSalaryIncrease up to its while loop
BeginRequiredSalaryIncrease ==
    \E sc \in IncreaseScenarios64 :
        LET currentNet == calculateNetSalary64(sc[1])
        IN  /\ phase = "idle"
            /\ phase' = "searching"
            /\ op' = "calculateRequiredSalaryIncrease"
            /\ args' = [currentSalary |-> sc[1], desiredTakeHomeIncrease |-> sc[2]]
            /\ result' = [low |-> sc[1], high |-> Mul64(sc[1], Fl(3)), salary |-> sc[1],
                          targetTakeHome |-> Add64(currentNet.net.annualIncome, sc[2])]
            /\ err' = NoError
            /\ steps' = 0
            /\ UNCHANGED instances

\* one pass through the while loop of either search
SearchPass ==
    /\ phase = "searching"
    /\ SearchContinues64(result)
    /\ steps < MaxPasses
    /\ result' = SearchPass64(result)
    /\ steps' = steps + 1
    /\ UNCHANGED <<phase, op, args, err, instances>>

\* calculateRequiredGrossSalary from the exit of its while loop
ReturnRequiredGrossSalary ==
    /\ phase = "searching"
    /\ op = "calculateRequiredGrossSalary"
    /\ ~SearchContinues64(result)
    /\ phase' = "done"
    /\ LET r == calculateNetSalary64(result.salary)
       IN  result' = [targetTakeHome |-> MathRound64(args.targetTakeHome),
                      requiredGrossSalary |-> MathRound64(result.salary),
                      actualTakeHome |-> r.net.annualIncome,
                      taxPayable |-> r.tax.totalTax,
                      superannuation |-> r.superannuation.annual]
    /\ UNCHANGED <<op, args, err, steps, instances>>

\* calculateRequiredSalaryIncrease from the exit of its while loop
ReturnRequiredSalaryIncrease ==
    /\ phase = "searching"
    /\ op = "calculateRequiredSalaryIncrease"
    /\ ~SearchContinues64(result)
    /\ phase' = "done"
    /\ LET currentNet == calculateNetSalary64(args.currentSalary)
           newNet == calculateNetSalary64(result.salary)
           salaryIncrease == Sub64(result.salary, args.currentSalary)
           takeHomeIncrease == Sub64(newNet.net.annualIncome, currentNet.net.annualIncome)
       IN  result' =
               [currentSalary |-> MathRound64(args.currentSalary),
                requiredSalary |-> MathRound64(result.salary),
                salaryIncrease |-> MathRound64(salaryIncrease),
                salaryIncreasePercentage |->
                    Div64(MathRound64(Mul64(Mul64(Div64(salaryIncrease, args.currentSalary),
                                                  Fl(100)), Fl(10))), Fl(10)),
                currentTakeHome |-> currentNet.net.annualIncome,
                newTakeHome |-> newNet.net.annualIncome,
                takeHomeIncrease |-> takeHomeIncrease,
                taxOnIncrease |-> MathRound64(Sub64(salaryIncrease, takeHomeIncrease))]
    /\ UNCHANGED <<op, args, err, steps, instances>>

NextDouble ==
    \/ BeginRequiredGrossSalary
    \/ BeginRequiredSalaryIncrease
    \/ SearchPass
    \/ ReturnRequiredGrossSalary
    \/ ReturnRequiredSalaryIncrease
    \/ Respond

SpecDouble == Init /\ [][NextDouble]_vars

(***************************************************************************)
(* Properties                                                              *)
(***************************************************************************)
\* the call of operation name has come out and is not yet answered
Done(name) == phase = "done" /\ op = name

\* C1: for monthly expenses e > 0 and a withdrawal rate r in (0, 1], the
\* savings goal is 12 * e / r and the withdrawal rate computed back from that
\* goal and e is r again; expenses 3000 at rate 0.04 give the goal 900000, and
\* the goal 720000 with expenses 3000 gives the rate 0.05.
FireRoundTrip ==
    /\ (Done("calculateSavingsGoal")
        /\ Gt(args.monthlyExpenses, I(0))
        /\ Gt(args.withdrawalRate, I(0)) /\ Le(args.withdrawalRate, I(1)))
       => /\ err = NoError
          /\ result.value = Div(Mul(I(12), args.monthlyExpenses), args.withdrawalRate)
          /\ calculateWithdrawalRate(result.value, args.monthlyExpenses)
                 = Return([value |-> args.withdrawalRate], 0)
          /\ (args.monthlyExpenses = I(3000) /\ args.withdrawalRate = Q(4, 100))
                 => result.value = I(900000)
    /\ (Done("calculateWithdrawalRate") /\ Gt(args.savingsGoal, I(0)))
       => /\ err = NoError
          /\ result.value = Div(Mul(I(12), args.monthlyExpenses), args.savingsGoal)
          /\ (args.savingsGoal = I(720000) /\ args.monthlyExpenses = I(3000))
                 => result.value = Q(5, 100)

\* a savings goal of 900000 has been computed from 3000 a month at 4%
FireRoundTripWitness ==
    /\ Done("calculateSavingsGoal")
    /\ args.monthlyExpenses = I(3000) /\ args.withdrawalRate = Q(4, 100)
    /\ result.value = I(900000)
    /\ calculateWithdrawalRate(result.value, I(3000)).value.value = Q(4, 100)

\* C2: each of the five validating operations fails exactly on its invalid
\* input (withdrawal rate <= 0; savings goal <= 0; years <= 0; loan amount <= 0
\* or loan term <= 0; retirement age <= current age), and a failing call has
\* run no simulation step and returns no result.
InvalidParameterDetection ==
    phase = "done" =>
        /\ op = "calculateSavingsGoal"
              => (err # NoError <=> Le(args.withdrawalRate, I(0)))
        /\ op = "calculateWithdrawalRate"
              => (err # NoError <=> Le(args.savingsGoal, I(0)))
        /\ op = "calculateSavingsGrowth"
              => (err # NoError <=> Le(args.years, I(0)))
        /\ op = "calculateLoanRepayment"
              => (err # NoError
                     <=> (Le(args.loanAmount, I(0)) \/ Le(args.loanTermYears, I(0))))
        /\ op = "calculateRetirementBalance"
              => (err # NoError <=> Le(args.retirementAge, args.currentAge))
        /\ (/\ op \in {"calculateSavingsGoal", "calculateWithdrawalRate",
                       "calculateSavingsGrowth", "calculateLoanRepayment",
                       "calculateRetirementBalance"}
            /\ err # NoError)
              => (steps = 0 /\ result = NoResult)

\* a savings projection over zero years has been refused
InvalidParameterWitness ==
    /\ Done("calculateSavingsGrowth")
    /\ args.years = I(0)
    /\ err = "Years must be greater than zero."
    /\ steps = 0 /\ result = NoResult

\* C3: for a loan amount > 0, an annual rate >= 0, a term > 0 and any payment
\* frequency, the schedule ends with the record of payment number totalPayments,
\* whose remaining balance is 0 and whose cumulative principal is the loan
\* amount (in whole units).
AmortizationClosure ==
    (Done("calculateLoanRepayment")
     /\ Gt(args.loanAmount, I(0)) /\ Ge(args.annualInterestRate, I(0))
     /\ Gt(args.loanTermYears, I(0)))
    => /\ err = NoError
       /\ Len(result.schedule) > 0
       /\ LET last == result.schedule[Len(result.schedule)]
          IN  /\ last.payment = result.totalPayments
              /\ last.remainingBalance = I(0)
              /\ last.cumulativePrincipal = Round(args.loanAmount)

\* C4: the tax at the upper bound of a bracket equals the tax at the lower
\* bound of the next bracket.
BracketContinuity ==
    \A i \in 1..(Len(taxBrackets) - 1) :
        (Done("calculateIncomeTax") /\ args.annualIncome = taxBrackets[i].max)
        => /\ err = NoError
           /\ result.value = calculateIncomeTax(taxBrackets[i + 1].min)

\* the tax at 45000, the upper bound of the second bracket, has come out as 5092
BracketContinuityWitness ==
    /\ Done("calculateIncomeTax")
    /\ args.annualIncome = taxBrackets[2].max
    /\ result.value = I(5092)
    /\ calculateIncomeTax(taxBrackets[3].min) = I(5092)

\* C5: for an income x >= 0 the income tax is base + (x - lower) * rate of the
\* bracket that contains x, with (lower, rate, base) one of (0, 0, 0),
\* (18200, 0.19, 0), (45000, 0.325, 5092), (120000, 0.37, 29467) and
\* (180000, 0.45, 51667); this covers 18201, 45001, 120001 and 180001.
BracketFormula ==
    (Done("calculateIncomeTax") /\ Ge(args.annualIncome, I(0)))
    => LET x == args.annualIncome
           expected ==
               IF Le(x, I(18200)) THEN I(0)
               ELSE IF Le(x, I(45000)) THEN Mul(Sub(x, I(18200)), Q(19, 100))
               ELSE IF Le(x, I(120000))
               THEN Add(I(5092), Mul(Sub(x, I(45000)), Q(325, 1000)))
               ELSE IF Le(x, I(180000))
               THEN Add(I(29467), Mul(Sub(x, I(120000)), Q(37, 100)))
               ELSE Add(I(51667), Mul(Sub(x, I(180000)), Q(45, 100)))
       IN  err = NoError /\ result.value = expected

\* C6 as stated: a salary of 100000 without package super and deductions has an
\* income tax of 23967.5, a Medicare levy of 2000 and a net income of
\* 100000 - (income tax - LITO + Medicare levy).
NetSalaryExampleAsStated ==
    (Done("calculateNetSalary")
     /\ args.annualSalary = I(100000) /\ ~args.includeSuperInPackage
     /\ args.superRate = Q(115, 1000)
     /\ args.preTaxDeductions = I(0) /\ args.postTaxDeductions = I(0))
    => /\ err = NoError
       /\ calculateIncomeTax(I(100000)) = Q(239675, 10)
       /\ result.tax.medicareLevy = I(2000)
       /\ result.net.annualIncome
              = Sub(I(100000), Add(Sub(Q(239675, 10), result.tax.lito), I(2000)))

\* C6: a salary of 100000 without package super and deductions has an income
\* tax of 5092 + (100000 - 45000) * 0.325 = 22967, a LITO of 0, a Medicare levy
\* of 2000 and a net income of 100000 - (22967 - 0 + 2000) = 75033.
NetSalaryExample ==
    (Done("calculateNetSalary")
     /\ args.annualSalary = I(100000) /\ ~args.includeSuperInPackage
     /\ args.superRate = Q(115, 1000)
     /\ args.preTaxDeductions = I(0) /\ args.postTaxDeductions = I(0))
    => /\ err = NoError
       /\ calculateIncomeTax(I(100000))
              = Add(I(5092), Mul(Sub(I(100000), I(45000)), Q(325, 1000)))
       /\ result.tax.incomeTax = I(22967)
       /\ result.tax.lito = I(0)
       /\ result.tax.medicareLevy = I(2000)
       /\ result.tax.totalTax = I(24967)
       /\ result.net.annualIncome
              = Sub(I(100000), Add(Sub(result.tax.incomeTax, result.tax.lito),
                                   result.tax.medicareLevy))
       /\ result.net.annualIncome = I(75033)

\* the net salary for 100000 has come out as 75033
NetSalaryExampleWitness ==
    /\ Done("calculateNetSalary")
    /\ args.annualSalary = I(100000) /\ ~args.includeSuperInPackage
    /\ args.preTaxDeductions = I(0) /\ args.postTaxDeductions = I(0)
    /\ result.tax.incomeTax = I(22967)
    /\ result.net.annualIncome = I(75033)

\* C7: at pension age, with assets >= 0 and income >= 0, the fortnightly
\* pension lies between 0 and the maximum of the household type (1116.30
\* single, 1682.80 couple), and it is that maximum when the assets are at or
\* below the assets threshold and the fortnightly income is at or below the
\* income free area.
PensionFloorAndCap ==
    (Done("calculateAgePension")
     /\ Ge(args.age, I(67))
     /\ Ge(args.assessableAssets, I(0)) /\ Ge(args.annualIncome, I(0)))
    => LET maximum == IF args.isCouple THEN Q(168280, 100) ELSE Q(111630, 100)
           threshold == IF args.isCouple THEN I(451500) ELSE I(301750)
           freeArea == IF args.isCouple THEN I(336) ELSE I(190)
       IN  /\ err = NoError
           /\ Ge(result.fortnightlyAmount, I(0))
           /\ Le(result.fortnightlyAmount, maximum)
           /\ (/\ Le(args.assessableAssets, threshold)
               /\ Le(Div(args.annualIncome, I(26)), freeArea))
              => result.fortnightlyAmount = maximum

\* a single aged 67 with assets exactly at the threshold gets the full pension,
\* and the same person with a million in assets gets none
PensionFloorAndCapWitness ==
    /\ Done("calculateAgePension")
    /\ args.age = I(67) /\ ~args.isCouple /\ args.isHomeowner
    /\ args.assessableAssets = I(301750) /\ args.annualIncome = I(0)
    /\ result.fortnightlyAmount = Q(111630, 100)
    /\ calculateAgePension(I(67), I(1000000), I(0), FALSE, TRUE).value.fortnightlyAmount
           = I(0)

\* the final balance of the call in args with the personal rate replaced by p
FinalBalanceAt(p) ==
    calculateRetirementBalance(args.currentAge, args.retirementAge, args.currentSuper,
                               args.annualIncome, args.employerContributionRate, p,
                               args.returnRate, args.inflationRate,
                               args.feeRate).value.finalBalance

\* C8 as stated: with the other inputs fixed and retirementAge > currentAge, a
\* larger personal contribution rate gives a strictly larger final balance.
ContributionStrictlyMonotone ==
    (Done("calculateRetirementBalance") /\ err = NoError)
    => \A p \in PersonalRates :
           Lt(args.personalContributionRate, p)
           => Lt(result.finalBalance, FinalBalanceAt(p))

\* C8: with the other inputs fixed, retirementAge > currentAge, an income >= 0,
\* an inflation rate >= -1 and a yearly growth factor
\* 1 + 0.85 * returnRate - feeRate >= 0, a larger personal contribution rate
\* gives a final balance that is at least as large.
ContributionMonotone ==
    (Done("calculateRetirementBalance") /\ err = NoError
     /\ Ge(args.annualIncome, I(0))
     /\ Ge(args.inflationRate, I(-1))
     /\ Ge(Sub(Add(I(1), Mul(Sub(I(1), earningsTaxRate), args.returnRate)), args.feeRate),
           I(0)))
    => \A p \in PersonalRates :
           Lt(args.personalContributionRate, p)
           => Le(result.finalBalance, FinalBalanceAt(p))

\* a projection without personal contributions has come out below the one
\* with personal contributions of 10%
ContributionMonotoneWitness ==
    /\ Done("calculateRetirementBalance") /\ err = NoError
    /\ args.annualIncome = I(4000)
    /\ args.returnRate = Q(7, 100)
    /\ args.personalContributionRate = I(0)
    /\ Lt(result.finalBalance, FinalBalanceAt(Q(1, 10)))

\* C9: a salary search never hangs: no search reaches a state of its loop in
\* which the loop condition holds and a pass leaves low, high and the salary
\* found so far as they are, a state from which the loop runs forever.
SalarySearchTerminates ==
    (phase = "searching" /\ SearchContinues64(result))
    => SearchPass64(result) # result

\* C10: the comparison, the safe withdrawal, the annuity comparison and the net
\* worth projection fail with an invalid-parameter error when the year count
\* is <= 0, before a period is simulated and without a result.
PeriodCountValidation ==
    /\ (Done("calculateComparison") /\ Le(args.years, I(0)))
       => (err \notin {NoError, UndefinedRead("netPosition")}
           /\ steps = 0 /\ result = NoResult)
    /\ (Done("calculateSafeWithdrawal") /\ Le(args.yearsInRetirement, I(0)))
       => (err # NoError /\ steps = 0 /\ result = NoResult)
    /\ (Done("compareAnnuityVsAccountBased") /\ Le(args.yearsInRetirement, I(0)))
       => (err \notin {NoError, UndefinedRead("remainingValue")}
           /\ steps = 0 /\ result = NoResult)
    /\ (Done("projectNetWorthGrowth") /\ Le(args.years, I(0)))
       => (err # NoError /\ steps = 0 /\ result = NoResult)

\* C11: every operation that computes an amortizing payment yields P / n when
\* the interest rate is exactly 0: the loan repayment reports
\* loanAmount / totalPayments (to the cent) and the comparison reports
\* loanAmount / (mortgageTerm * 12) (to the unit) as the payment.
ZeroRateFallback ==
    /\ (Done("calculateLoanRepayment") /\ err = NoError
        /\ Eq(args.annualInterestRate, I(0)))
           => result.payment
                  = Round2(Div(args.loanAmount,
                               Mul(args.loanTermYears,
                                   I(frequencies(args.paymentFrequency)))))
    /\ (Done("calculateComparison") /\ err = NoError /\ Eq(args.mortgageRate, I(0)))
           => result.buying.monthlyPayment
                  = Round(Div(Sub(args.propertyPrice, args.deposit),
                              Mul(args.mortgageTerm, I(12))))

\* C12: calculateRequiredContributions reports the invalid-parameter error for
\* retirementAge <= currentAge at entry, whatever targetBalance and
\* currentSuper are: no pass of the search runs and no result is returned.
RequiredContributionsAgeCheck ==
    (Done("calculateRequiredContributions") /\ Le(args.retirementAge, args.currentAge))
        => /\ err = "Retirement age must be greater than current age."
           /\ steps = 0
           /\ result = NoResult

\* C13: when the target is already met (target <= balance), calculateTimeToGoal
\* returns months 0 with achieved = true, calculateRequiredContribution returns
\* 0 and calculateRequiredContributions returns 0, each without a simulation or
\* search step.
DegenerateGoal ==
    /\ (Done("calculateTimeToGoal") /\ Le(args.targetAmount, args.initialBalance))
           => /\ err = NoError /\ steps = 0
              /\ result.achieved = TRUE /\ result.months = I(0)
    /\ (Done("calculateRequiredContribution")
        /\ Le(args.targetAmount, args.initialBalance))
           => err = NoError /\ steps = 0 /\ result = [value |-> I(0)]
    /\ (Done("calculateRequiredContributions")
        /\ Le(args.targetBalance, args.currentSuper))
           => err = NoError /\ steps = 0 /\ result = [value |-> I(0)]

\* a target equal to the balance has been answered by calculateTimeToGoal when
\* neither contributions nor interest could reach a goal
DegenerateGoalWitness ==
    /\ Done("calculateTimeToGoal")
    /\ args.targetAmount = args.initialBalance
    /\ args.monthlyContribution = I(0) /\ args.annualInterestRate = I(0)
    /\ result.achieved = TRUE

\* C14: for a whole target > 0, the take-home of the salary returned by
\* calculateRequiredGrossSalary is at least the target, and no whole salary
\* lower than the returned one by more than 1 unit (by 2..LookBelow units)
\* has a take-home that reaches the target.
RequiredGrossSalarySolves ==
    (Done("calculateRequiredGrossSalary") /\ err = NoError
     /\ IsWhole(args.targetTakeHome) /\ Gt(args.targetTakeHome, I(0)))
        => /\ Ge(result.actualTakeHome, args.targetTakeHome)
           /\ \A d \in 2..LookBelow :
                  Lt(NetSalaryDefault(Sub(result.requiredGrossSalary, I(d)))
                         .value.net.annualIncome,
                     args.targetTakeHome)

MedicareShading ==
    Done("calculateMedicareLevy") =>
        LET x == args.annualIncome
            top == Add(medicareThreshold, I(3740))
        IN  /\ Le(x, medicareThreshold) => result.value = I(0)
            /\ (Gt(x, medicareThreshold) /\ Le(x, top))
                   => result.value
                          = Mul(Div(Sub(x, medicareThreshold), I(3740)),
                                calculateMedicareLevy(top))
            /\ Eq(x, top) => result.value = Mul(x, medicareRate)
            /\ Gt(x, top) => result.value = Mul(x, medicareRate)

\* C17: the low income tax offset is the maximum of 700 for an income <= 37500,
\* is within [0, 700] and non-increasing in the income, and phases out
\* linearly over the band from 37500 to 66667: it is positive inside the band
\* and first reaches 0 at the end of the band.
LitoPhaseOut ==
    Done("calculateLITO") =>
        LET x == args.annualIncome
            band == Sub(litoPhaseOutEnd, litoThreshold)
        IN  /\ Le(x, litoThreshold) => result.value = litoMax
            /\ Ge(result.value, I(0)) /\ Le(result.value, litoMax)
            /\ \A y \in LitoIncomes : Le(y, x) => Ge(calculateLITO(y), result.value)
            /\ (Gt(x, litoThreshold) /\ Lt(x, litoPhaseOutEnd))
                   => /\ Gt(result.value, I(0))
                      /\ result.value
                             = Mul(litoMax, Div(Sub(litoPhaseOutEnd, x), band))
            /\ Ge(x, litoPhaseOutEnd) => result.value = I(0)

\* C18: the tax brackets partition the incomes >= 0 without gaps or overlaps:
\* for every taxable income >= 0, whole or fractional, exactly one bracket
\* contains the income, and getMarginalTaxRate returns that bracket's rate as
\* a percentage plus the 2% levy.
BracketPartition ==
    (Done("getMarginalTaxRate") /\ Ge(args.taxableIncome, I(0))) =>
        LET x == args.taxableIncome
            containing == {i \in DOMAIN taxBrackets :
                              Ge(x, taxBrackets[i].min) /\ Le(x, taxBrackets[i].max)}
        IN  /\ Cardinality(containing) = 1
            /\ \A i \in containing :
                   result.value = Add(Mul(taxBrackets[i].rate, I(100)), I(2))

\* C19: the stamp duty brackets have consistent bases: the duty has no jump at
\* 14000, 32000, 85000, 319000 or 1064000 and is non-decreasing in the price,
\* so one unit of price above a threshold adds to the duty at the threshold
\* the rate of the bracket above it, and the duty does not go down.
StampDutyContinuity ==
    (Done("calculateStampDuty")
     /\ args.propertyPrice \in {I(14000), I(32000), I(85000), I(319000), I(1064000)})
        => LET next == calculateStampDuty(Add(args.propertyPrice, I(1)))
               rate == CASE args.propertyPrice = I(14000) -> Q(15, 1000)
                         [] args.propertyPrice = I(32000) -> Q(175, 10000)
                         [] args.propertyPrice = I(85000) -> Q(35, 1000)
                         [] args.propertyPrice = I(319000) -> Q(45, 1000)
                         [] args.propertyPrice = I(1064000) -> Q(55, 1000)
           IN  /\ Ge(next, result.value)
               /\ Sub(next, result.value) = rate

\* C20: for an age >= 67, calculateAgePension has an assets-test candidate and
\* an income-test candidate, each at least 0; fortnightlyAmount is the smaller
\* of the two (to the cent), and reductionReason is 'assets' exactly when the
\* assets candidate is strictly smaller than the income candidate, otherwise
\* 'income'.
PensionBindingTest ==
    (Done("calculateAgePension") /\ Ge(args.age, agePensionAge)) =>
        LET maxPension == IF args.isCouple THEN agePensionMaxCouple
                          ELSE agePensionMaxSingle
            a == AssetsTestPension(maxPension, args.assessableAssets,
                                   IF args.isCouple THEN assetsTestThresholdCouple
                                   ELSE assetsTestThresholdSingle)
            i == IncomeTestPension(maxPension, Div(args.annualIncome, I(26)),
                                   IF args.isCouple THEN I(336) ELSE I(190))
        IN  /\ Ge(a, I(0)) /\ Ge(i, I(0))
            /\ result.assetsTest.pensionAmount = Round(Mul(a, I(26)))
            /\ result.incomeTest.pensionAmount = Round(Mul(i, I(26)))
            /\ result.fortnightlyAmount = Round2(IF Lt(i, a) THEN i ELSE a)
            /\ result.reductionReason \in {"assets", "income"}
            /\ result.reductionReason = "assets" <=> Lt(a, i)

\* a pension has been calculated in which neither test reduces the maximum, so
\* that the candidates are equal and the recorded test is the income test
PensionBindingTestWitness ==
    /\ Done("calculateAgePension") /\ Ge(args.age, agePensionAge)
    /\ result.assetsTest.pensionAmount = result.incomeTest.pensionAmount
    /\ result.fortnightlyAmount = agePensionMaxSingle
    /\ result.reductionReason = "income"

\* the final balance of the required-contributions call in args when the
\* personal contribution rate is p, as the search evaluates it
SearchedBalanceAt(p) ==
    calculateRetirementBalance(args.currentAge, args.retirementAge, args.currentSuper,
                               args.annualIncome, defaultSGRate, p, args.returnRate,
                               Q(25, 1000), Q(85, 10000)).value.finalBalance

\* C21: for targetBalance > currentSuper, calculateRequiredContributions
\* bisects [0, 0.5] until the width is <= 0.0001 or 100 passes have run and
\* returns the midpoint as a percentage: the result lies in [0, 50], and when
\* the target is attainable in the interval (final balance at rate 0 < target
\* <= final balance at rate 0.5) the final balance at the returned rate plus
\* 0.0001 is >= target and the one at the returned rate minus 0.0001 is
\* < target.
RequiredContributionsBracket ==
    (Done("calculateRequiredContributions") /\ err = NoError
     /\ Gt(args.targetBalance, args.currentSuper)) =>
        LET rate == Div(result.value, I(100))
            width == Div(Q(1, 2), Pow(I(2), steps))
        IN  /\ steps <= 100
            /\ steps < 100 => (Le(width, Q(1, 10000)) /\ Gt(Mul(width, I(2)), Q(1, 10000)))
            /\ Ge(result.value, I(0)) /\ Le(result.value, I(50))
            /\ (Lt(SearchedBalanceAt(I(0)), args.targetBalance)
                /\ Le(args.targetBalance, SearchedBalanceAt(Q(1, 2))))
                   => /\ Ge(SearchedBalanceAt(Add(rate, Q(1, 10000))), args.targetBalance)
                      /\ Lt(SearchedBalanceAt(Sub(rate, Q(1, 10000))), args.targetBalance)

\* a search for an attainable target has returned a rate strictly inside the
\* interval
RequiredContributionsBracketWitness ==
    /\ Done("calculateRequiredContributions") /\ err = NoError
    /\ args.targetBalance = I(3000) /\ args.currentSuper = I(0)
    /\ Lt(SearchedBalanceAt(I(0)), args.targetBalance)
    /\ Le(args.targetBalance, SearchedBalanceAt(Q(1, 2)))
    /\ Gt(result.value, I(0)) /\ Lt(result.value, I(50))

\* the contribution of year k (counting from 0) of the projection in args at
\* the given rate, before contributions tax
GrossContribution(k, rate) ==
    Mul(Mul(args.annualIncome, Pow(Add(I(1), args.inflationRate), k)), rate)

\* the balance of the projection in args when year k's contributions, net of
\* the contributions tax, have been added to the balance after k years
RECURSIVE SuperBalanceAfter(_)
SuperBalanceWithContribution(k) ==
    Add(SuperBalanceAfter(k),
        Mul(GrossContribution(k, Add(args.employerContributionRate,
                                     args.personalContributionRate)),
            Q(85, 100)))

\* the balance of the projection in args after k years: the return net of
\* earnings tax, less the fee, is taken on the balance with the contribution
SuperBalanceAfter(k) ==
    IF k = 0 THEN args.currentSuper
    ELSE Mul(SuperBalanceWithContribution(k - 1),
             Add(I(1), Sub(Mul(args.returnRate, Q(85, 100)), args.feeRate)))

\* the balance of the savings projection in args after n periods when every
\* period adds the contribution c and then earns the rate r on the sum
SavingsBalanceAfter(n, c, r) ==
    IF Eq(r, I(0)) THEN Add(args.initialBalance, Mul(I(n), c))
    ELSE The({Add(Mul(args.initialBalance, f),
                  Div(Mul(Mul(c, Add(I(1), r)), Sub(f, I(1))), r)) :
                 f \in {Pow(Add(I(1), r), n)}})

\* C22: in calculateSavingsGrowth and calculateRetirementBalance every period
\* first adds the period's (net) contribution to the balance and then computes
\* the period's return on the increased balance; in the superannuation
\* projection the contributions are recomputed once per year, so that year k
\* (from 0) contributes annualIncome * (1 + inflationRate)^k * rate before
\* contributions tax.
AccumulationOrder ==
    /\ (Done("calculateSavingsGrowth") /\ err = NoError) =>
           LET cpy == compoundingFrequencies(args.compoundingFrequency)
               c == Mul(args.monthlyContribution, Div(I(12), I(cpy)))
               r == Div(args.annualInterestRate, I(cpy))
               final == SavingsBalanceAfter(steps, c, r)
           IN  /\ result.finalBalance = Round(final)
               /\ result.totalContributions = Round(Mul(I(steps), c))
               /\ result.totalInterest
                      = Round(Sub(Sub(final, args.initialBalance), Mul(I(steps), c)))
    /\ (Done("calculateRetirementBalance") /\ err = NoError) =>
           /\ steps = Len(result.yearlyData)
           /\ result.finalBalance = Round(SuperBalanceAfter(steps))
           /\ \A k \in 1..Len(result.yearlyData) :
                  LET rec == result.yearlyData[k]
                      with == SuperBalanceWithContribution(k - 1)
                  IN  /\ rec.balance = Round(SuperBalanceAfter(k))
                      /\ rec.employerContribution
                             = Round(Mul(GrossContribution(k - 1,
                                             args.employerContributionRate),
                                         Q(85, 100)))
                      /\ rec.personalContribution
                             = Round(Mul(GrossContribution(k - 1,
                                             args.personalContributionRate),
                                         Q(85, 100)))
                      /\ rec.contributionsTax
                             = Round(Mul(GrossContribution(k - 1,
                                             Add(args.employerContributionRate,
                                                 args.personalContributionRate)),
                                         Q(15, 100)))
                      /\ rec.returns = Round(Mul(Mul(with, args.returnRate), Q(85, 100)))
                      /\ rec.fees = Round(Mul(with, args.feeRate))

\* a superannuation projection of two years with wage growth of 100% has
\* returned: the second year's personal contribution is twice the first year's
AccumulationOrderWitness ==
    /\ Done("calculateRetirementBalance") /\ err = NoError
    /\ steps = 2
    /\ args.inflationRate = I(1)
    /\ Gt(args.returnRate, I(0))
    /\ Gt(result.yearlyData[1].personalContribution, I(0))
    /\ result.yearlyData[2].personalContribution
           = Mul(I(2), result.yearlyData[1].personalContribution)

\* the sum of a field over the first k records of a timeline
RECURSIVE RecordSum(_, _, _)
RecordSum(records, field, k) ==
    IF k = 0 THEN I(0) ELSE Add(RecordSum(records, field, k - 1), records[k][field])

\* the shape of the timeline of the savings projection in args over N whole
\* years: all N * compoundsPerYear periods have run, the timeline is the
\* year-0 record followed by one record per year 1..N, and the last record
\* carries the final balance
CompactedTimeline(N) ==
    LET cpy == compoundingFrequencies(args.compoundingFrequency)
        data == result.yearlyData
    IN  /\ steps = N * cpy
        /\ Len(data) = N + 1
        /\ data[1] = [year |-> I(0), balance |-> Round(args.initialBalance),
                      contributions |-> I(0), interest |-> I(0),
                      totalContributions |-> I(0), totalInterest |-> I(0)]
        /\ \A k \in 1..N : data[k + 1].year = I(k)
        /\ data[N + 1].balance = result.finalBalance

\* C23 as stated: for every compounding frequency and every whole number of
\* years N >= 1, all N * compoundsPerYear periods are executed, yearlyData is
\* the year-0 record plus one record per elapsed year, the records'
\* contributions and interest add up to totalContributions and totalInterest,
\* and the last record's balance is finalBalance.
CompactionAsStated ==
    (Done("calculateSavingsGrowth") /\ err = NoError
     /\ IsWhole(args.years) /\ Ge(args.years, I(1))) =>
        LET N == args.years[1]
            data == result.yearlyData
        IN  /\ CompactedTimeline(N)
            /\ RecordSum(data, "contributions", Len(data)) = result.totalContributions
            /\ RecordSum(data, "interest", Len(data)) = result.totalInterest

\* C23: for every compounding frequency and every whole number of years
\* N >= 1, all N * compoundsPerYear periods are executed and yearlyData is the
\* year-0 record plus one record per elapsed year 1..N; a year's record holds
\* the sums of that year's periods' contributions and interest, each rounded
\* to a whole unit, so across the records they add up to totalContributions
\* and totalInterest to within less than (N + 1) / 2 units; the last record's
\* cumulative totals are totalContributions and totalInterest and its balance
\* is finalBalance.
Compaction ==
    (Done("calculateSavingsGrowth") /\ err = NoError
     /\ IsWhole(args.years) /\ Ge(args.years, I(1))) =>
        LET N == args.years[1]
            cpy == compoundingFrequencies(args.compoundingFrequency)
            c == Mul(args.monthlyContribution, Div(I(12), I(cpy)))
            r == Div(args.annualInterestRate, I(cpy))
            data == result.yearlyData
            slack == Q(N + 1, 2)
            offContributions ==
                Sub(RecordSum(data, "contributions", Len(data)), result.totalContributions)
            offInterest ==
                Sub(RecordSum(data, "interest", Len(data)), result.totalInterest)
        IN  /\ CompactedTimeline(N)
            /\ \A k \in 1..N :
                   LET grown == Sub(SavingsBalanceAfter(k * cpy, c, r),
                                    SavingsBalanceAfter((k - 1) * cpy, c, r))
                   IN  /\ data[k + 1].contributions = Round(Mul(I(cpy), c))
                       /\ data[k + 1].interest = Round(Sub(grown, Mul(I(cpy), c)))
            /\ Lt(offContributions, slack) /\ Lt(Neg(slack), offContributions)
            /\ Lt(offInterest, slack) /\ Lt(Neg(slack), offInterest)
            /\ data[N + 1].totalContributions = result.totalContributions
            /\ data[N + 1].totalInterest = result.totalInterest

\* a projection over two years of quarterly compounding has returned three
\* records after eight periods
CompactionWitness ==
    /\ Done("calculateSavingsGrowth") /\ err = NoError
    /\ args.years = I(2) /\ args.compoundingFrequency = "quarterly"
    /\ Gt(args.annualInterestRate, I(0))
    /\ steps = 8
    /\ Len(result.yearlyData) = 3

\* one year of the withdrawal projection in args: the year's expenses are
\* withdrawn, the return is earned on what is left if anything is left, and
\* the expenses grow with inflation
PortfolioYear(s, c) ==
    The({[balance |-> IF Gt(withdrawn, I(0))
                      THEN Mul(withdrawn, Add(I(1), args.expectedReturn))
                      ELSE I(0),
          expenses |-> Mul(s.expenses, Add(I(1), args.inflationRate))] :
             withdrawn \in {Sub(s.balance, s.expenses)}})

\* the balance of the withdrawal projection in args after k years
PortfolioAfter(k) ==
    Iterate(PortfolioYear,
            [balance |-> args.portfolioValue, expenses |-> args.annualExpenses],
            0, k).balance

\* the balance of the account-based pension in args after k years in which it
\* was not exhausted: 5% is drawn, and the return is earned on the rest
AccountBalanceAfter(k) ==
    Mul(args.superBalance,
        Pow(Mul(Q(95, 100), Add(I(1), args.investmentReturn)), k))

\* C24 as stated: the balance reported in every timeline record of
\* calculateSafeWithdrawal and compareAnnuityVsAccountBased is >= 0, and once
\* a record reports a balance of 0 no later record reports a positive balance.
DecumulationClampAsStated ==
    /\ (Done("calculateSafeWithdrawal") /\ err = NoError) =>
           LET t == result.timeline
           IN  \A k \in 1..Len(t) :
                   /\ Ge(t[k].portfolioValue, I(0))
                   /\ \A j \in 1..k :
                          t[j].portfolioValue = I(0) => t[k].portfolioValue = I(0)
    /\ (Done("compareAnnuityVsAccountBased") /\ err = NoError) =>
           \A t \in {result.annuity.timeline, result.accountBased.timeline} :
               \A k \in 1..Len(t) :
                   /\ Ge(t[k].remainingValue, I(0))
                   /\ \A j \in 1..k :
                          t[j].remainingValue = I(0) => t[k].remainingValue = I(0)

\* C24: the balance reported in every timeline record of
\* calculateSafeWithdrawal and compareAnnuityVsAccountBased is the running
\* balance floored at 0 and rounded to a whole unit, so it is >= 0; once the
\* running balance is exhausted (<= 0) no return is applied to it and every
\* later record reports 0 (calculateSafeWithdrawal has no later record); a
\* positive balance below 0.5 is reported as 0 too, but keeps earning the
\* return.
DecumulationClamp ==
    /\ (Done("calculateSafeWithdrawal") /\ err = NoError) =>
           LET t == result.timeline
           IN  \A k \in 1..Len(t) :
                   /\ Ge(t[k].portfolioValue, I(0))
                   /\ t[k].portfolioValue = Round(Max(I(0), PortfolioAfter(k)))
                   /\ k < Len(t) => Gt(PortfolioAfter(k), I(0))
    /\ (Done("compareAnnuityVsAccountBased") /\ err = NoError) =>
           LET t == result.accountBased.timeline
               a == result.annuity.timeline
           IN  /\ \A k \in 1..Len(a) : a[k].remainingValue = I(0)
               /\ \A k \in 1..Len(t) :
                      /\ Ge(t[k].remainingValue, I(0))
                      /\ IF \E j \in 1..k : Le(AccountBalanceAfter(j), I(0))
                         THEN t[k].remainingValue = I(0)
                         ELSE t[k].remainingValue = Round(AccountBalanceAfter(k))

\* an account-based pension that loses its whole balance in the first year has
\* been projected over two years: both records report 0
DecumulationClampWitness ==
    /\ Done("compareAnnuityVsAccountBased") /\ err = NoError
    /\ Gt(args.superBalance, I(0))
    /\ args.investmentReturn = I(-2)
    /\ Len(result.accountBased.timeline) = 2
    /\ result.accountBased.timeline[1].remainingValue = I(0)
    /\ result.accountBased.timeline[2].remainingValue = I(0)

\* C25: when the portfolio of calculateSafeWithdrawal is exhausted in a year
\* k < yearsInRetirement, the timeline still has a record for every year
\* 1..yearsInRetirement, and the years after k are recorded with a zero
\* balance.
EarlyExhaustion ==
    (Done("calculateSafeWithdrawal") /\ err = NoError
     /\ IsWhole(args.yearsInRetirement) /\ Ge(args.yearsInRetirement, I(1))) =>
        LET t == result.timeline
            N == args.yearsInRetirement[1]
        IN  /\ Len(t) = N
            /\ \A k \in 1..Len(t) :
                   /\ t[k].year = I(k)
                   /\ (\E j \in 1..(k - 1) : Le(PortfolioAfter(j), I(0)))
                          => t[k].portfolioValue = I(0)

\* the renter's investment of the comparison in args after k years when every
\* month of every year adds the month's differential (mortgage payment minus
\* rent) and then compounds at investmentReturnRate / 12
RECURSIVE InvestmentAfter(_)
InvestmentAfter(k) ==
    IF k = 0 THEN args.deposit
    ELSE Iterate(InvestMonth, InvestmentAfter(k - 1),
                 [monthlySavings |->
                      Sub(MonthlyMortgage(Sub(args.propertyPrice, args.deposit),
                                          Div(args.mortgageRate, I(12)),
                                          Mul(args.mortgageTerm, I(12))),
                          Mul(args.monthlyRent,
                              Pow(Add(I(1), args.rentIncreaseRate), k - 1))),
                  investmentReturnRate |-> args.investmentReturnRate],
                 12)

\* C26: in calculateComparison the renter's investment starts from the deposit
\* and in every year, year 1 included and whatever the sign of the monthly
\* differential, is the previous year's value after twelve months of adding
\* the differential and compounding at investmentReturnRate / 12.
InvestmentOffsetRule ==
    (Done("calculateComparison") /\ err = NoError) =>
        \A k \in 1..Len(result.renting.timeline) :
            result.renting.timeline[k].investmentValue = Round(InvestmentAfter(k))

\* C27: the take-home income the salary searches look for is monotone: with
\* the default options, the net annual income calculateNetSalary reports is
\* non-decreasing in annualSalary, net(s1) <= net(s2) for 0 <= s1 < s2.
NetSalaryMonotone ==
    (Done("calculateNetSalary") /\ err = NoError
     /\ args.includeSuperInPackage = FALSE
     /\ args.preTaxDeductions = I(0) /\ args.postTaxDeductions = I(0)
     /\ Ge(args.annualSalary, I(0))) =>
        \A s2 \in TaxIncomes \cup MedicareIncomes :
            Lt(args.annualSalary, s2)
                => Le(result.net.annualIncome, NetSalaryDefault(s2).value.net.annualIncome)

\* C28: calculateRequiredSalaryIncrease delivers the requested increase: for a
\* current salary > 0 and a desired take-home increase >= 0, the returned
\* takeHomeIncrease is at least the desired increase and requiredSalary is at
\* least the current salary.
SalaryIncreaseDelivered ==
    (Done("calculateRequiredSalaryIncrease") /\ err = NoError
     /\ Gt(args.currentSalary, I(0)) /\ Ge(args.desiredTakeHomeIncrease, I(0)))
        => /\ Ge(result.takeHomeIncrease, args.desiredTakeHomeIncrease)
           /\ Ge(result.requiredSalary, args.currentSalary)

\* one month of saving towards the goal in args, the contribution added and
\* then the interest applied, until the first month after which the balance
\* is at least the target (first, 0 while there is none)
GoalMonth(s, c) ==
    IF s.first # 0 THEN s
    ELSE The({[months |-> s.months + 1,
               balance |-> grown,
               first |-> IF Ge(grown, args.targetAmount) THEN s.months + 1 ELSE 0] :
                 grown \in {Mul(Add(s.balance, args.monthlyContribution),
                                Add(I(1), Div(args.annualInterestRate, I(12))))}})

\* the least number of months, 1..1200, after which the balance of the goal in
\* args is at least the target, 0 if there is none
LeastMonths ==
    Iterate(GoalMonth, [months |-> 0, balance |-> args.initialBalance, first |-> 0],
            0, 1200).first

\* C29: for targetAmount > initialBalance, calculateTimeToGoal returns
\* achieved = true with months = m exactly when m is the least number of
\* monthly steps, 1 <= m <= 1200, after which the balance is >= targetAmount;
\* it reports the goal as not achievable only when the balance is still below
\* the target after all 1200 months (without contribution and interest no
\* month is simulated); the loop never runs more than 1200 steps.
TimeToGoalLeast ==
    (Done("calculateTimeToGoal") /\ err = NoError
     /\ Gt(args.targetAmount, args.initialBalance)) =>
        /\ steps <= 1200
        /\ IF Le(args.monthlyContribution, I(0)) /\ Le(args.annualInterestRate, I(0))
           THEN result.achieved = FALSE /\ steps = 0
           ELSE /\ LeastMonths # 0
                    => (result.achieved = TRUE /\ result.months = I(LeastMonths))
                /\ LeastMonths = 0 => result.achieved = FALSE

\* C30: calculateRequiredContribution never returns a negative contribution:
\* for an initial balance >= 0, a target above it, years > 0 and an annual
\* rate >= 0 the result is >= 0.
RequiredContributionNonNegative ==
    (Done("calculateRequiredContribution") /\ err = NoError
     /\ Ge(args.initialBalance, I(0))
     /\ Gt(args.targetAmount, args.initialBalance)
     /\ Gt(args.years, I(0))
     /\ Ge(args.annualInterestRate, I(0)))
        => Ge(result.value, I(0))

====
